---- MODULE Spec2Model ----
(***************************************************************************)
(* Model of the Nucleus ledger engine: records, hash chain entries, the   *)
(* chain verifier, the in-memory LedgerState, the SQLite storage backend   *)
(* and the LedgerEngine operations that tie them together.                 *)
(*                                                                         *)
(* Conventions.  Option<T> is a sequence of length at most one: <<>> is    *)
(* None and <<v>> is Some(v).  SHA-256 is modelled as an injective         *)
(* function of the canonical bytes, so a Hash is the canonical form it     *)
(* was computed from.  Positions held by the indices are 0-based as in     *)
(* the source; TLA+ sequences are 1-based.                                 *)
(***************************************************************************)
EXTENDS Integers, Sequences, FiniteSets, TLC

(***************************************************************************)
(* Bounds of the model                                                     *)
(***************************************************************************)
\* longest entry sequence the engine is driven to
MaxLen == 3
\* longest batch handed to append_batch
MaxBatch == 2
\* latest reading of the system clock, in seconds
MaxClock == 2
\* how many fields of a chain a caller overwrites before verifying it
MaxCorrupt == 2

(***************************************************************************)
(* Option helpers                                                          *)
(***************************************************************************)
None == <<>>
Some(v) == <<v>>
IsSome(o) == Len(o) = 1
Unwrap(o) == o[1]

(***************************************************************************)
(* Records (nucleus-core/src/record.rs)                                    *)
(***************************************************************************)
\* serde_json::Value payloads: an object with the given keys, or a scalar
ObjectPayload(keys) == [kind |-> "object", keys |-> keys]
ScalarPayload == [kind |-> "scalar", keys |-> {}]

Record(id, stream, timestamp, payload) ==
    [id |-> id, stream |-> stream, timestamp |-> timestamp,
     payload |-> payload, meta |-> None]

\* The records callers submit: accepted ones (with rising, equal and falling
\* timestamps, shared and distinct ids, two streams), ones a module hook
\* rejects, and ones record validation rejects.
Records ==
    { Record("r1", "proofs", 2, ObjectPayload({"subject_oid", "issuer_oid"})),
      Record("r2", "assets", 1, ObjectPayload({"owner_oid"})),
      Record("r2", "proofs", 1, ObjectPayload({"subject_oid"})),
      Record("", "assets", 1, ObjectPayload({"owner_oid"})) }

\* Record::validate
RecordValidate(record) ==
    IF record.id = "" THEN "InvalidId"
    ELSE IF record.stream = "" THEN "InvalidStream"
    ELSE IF record.timestamp = 0 THEN "InvalidTimestamp"
    ELSE IF record.payload.kind \notin {"object", "array"} THEN "InvalidPayload"
    ELSE "ok"

(***************************************************************************)
(* Content addressing (nucleus-core/src/serialization/canonical.rs)        *)
(***************************************************************************)
\* the canonical object: id, stream, timestamp, payload and, only if
\* present, meta
SerializeCanonical(record) ==
    <<record.id, record.stream, record.timestamp, record.payload>>
        \o (IF IsSome(record.meta) THEN <<Unwrap(record.meta)>> ELSE <<>>)

ComputeHash(record) == [sha256 |-> SerializeCanonical(record)]

(***************************************************************************)
(* Chain entries and the verifier (nucleus-core/src/hash_chain.rs)         *)
(***************************************************************************)
\* ChainEntryNew dropping the link to the previous entry
ChainEntryNewUnlinked(record, prev_hash) ==
    [record |-> record, hash |-> ComputeHash(record), prev_hash |-> None]

\* ChainEntry::new after its record.validate() has passed
ChainEntryNew(record, prev_hash) ==
    [record |-> record, hash |-> ComputeHash(record), prev_hash |-> prev_hash]

\* VerifyHash taking the stored hash on trust
VerifyHashTrusting(entry) == entry.hash = entry.hash

\* ChainEntry::verify_hash
VerifyHash(entry) == ComputeHash(entry.record) = entry.hash

ChainVerificationResultNew ==
    [valid |-> TRUE, entries_checked |-> 0, errors |-> <<>>,
     hash_mismatches |-> 0, chain_link_errors |-> 0, timestamp_errors |-> 0]

ChainError(kind, entry) == [kind |-> kind, entry_id |-> entry.record.id]

\* VerifyStep keeping the running prev_hash where the link is broken
VerifyStepStalePrev(entries, idx, acc) ==
    LET entry == entries[idx]
        result == acc.result
    IN  IF ~VerifyHash(entry)
        THEN [prev_hash |-> acc.prev_hash,
              result |-> [result EXCEPT
                            !.valid = FALSE,
                            !.hash_mismatches = @ + 1,
                            !.errors = Append(@, ChainError("HashMismatch", entry))]]
        ELSE LET linkBroken ==
                     IF IsSome(acc.prev_hash)
                     THEN entry.prev_hash # Some(Unwrap(acc.prev_hash))
                     ELSE IsSome(entry.prev_hash)
                 afterLink ==
                     IF linkBroken
                     THEN [result EXCEPT
                             !.valid = FALSE,
                             !.chain_link_errors = @ + 1,
                             !.errors = Append(@, ChainError("ChainLinkBroken", entry))]
                     ELSE result
                 outOfOrder ==
                     idx > 1 /\ entry.record.timestamp < entries[idx - 1].record.timestamp
                 afterTs ==
                     IF outOfOrder
                     THEN [afterLink EXCEPT
                             !.valid = FALSE,
                             !.timestamp_errors = @ + 1,
                             !.errors = Append(@, ChainError("TimestampOutOfOrder", entry))]
                     ELSE afterLink
             IN  [prev_hash |-> IF linkBroken THEN acc.prev_hash ELSE Some(entry.hash),
                  result |-> afterTs]

\* one iteration of the loop of verify_chain on entries[idx] (1-based), with
\* the running prev_hash; returns the running state after the iteration
VerifyStep(entries, idx, acc) ==
    LET entry == entries[idx]
        result == acc.result
    IN  IF ~VerifyHash(entry)
        THEN \* hash mismatch: record it and `continue`
             [prev_hash |-> acc.prev_hash,
              result |-> [result EXCEPT
                            !.valid = FALSE,
                            !.hash_mismatches = @ + 1,
                            !.errors = Append(@, ChainError("HashMismatch", entry))]]
        ELSE LET linkBroken ==
                     IF IsSome(acc.prev_hash)
                     THEN entry.prev_hash # Some(Unwrap(acc.prev_hash))
                     ELSE IsSome(entry.prev_hash)
                 afterLink ==
                     IF linkBroken
                     THEN [result EXCEPT
                             !.valid = FALSE,
                             !.chain_link_errors = @ + 1,
                             !.errors = Append(@, ChainError("ChainLinkBroken", entry))]
                     ELSE result
                 outOfOrder ==
                     idx > 1 /\ entry.record.timestamp < entries[idx - 1].record.timestamp
                 afterTs ==
                     IF outOfOrder
                     THEN [afterLink EXCEPT
                             !.valid = FALSE,
                             !.timestamp_errors = @ + 1,
                             !.errors = Append(@, ChainError("TimestampOutOfOrder", entry))]
                     ELSE afterLink
             IN  [prev_hash |-> Some(entry.hash), result |-> afterTs]

RECURSIVE VerifyLoop(_, _, _)
VerifyLoop(entries, idx, acc) ==
    IF idx > Len(entries) THEN acc
    ELSE VerifyLoop(entries, idx + 1, VerifyStep(entries, idx, acc))

\* verify_chain
VerifyChain(entries) ==
    VerifyLoop(entries, 1,
               [prev_hash |-> None,
                result |-> [ChainVerificationResultNew EXCEPT
                              !.entries_checked = Len(entries)]]).result

(***************************************************************************)
(* LedgerState (nucleus-engine/src/state.rs)                               *)
(***************************************************************************)
\* LedgerState::new
LedgerStateNew ==
    [entries |-> <<>>, by_hash |-> <<>>, by_id |-> <<>>, latest_hash |-> None]

\* HashMap::insert
MapInsert(map, key, value) ==
    [k \in (DOMAIN map) \cup {key} |-> IF k = key THEN value ELSE map[k]]

\* StateAppend forgetting to advance the tip
StateAppendStaleTip(st, entry) ==
    LET idx == Len(st.entries)
    IN  [entries |-> Append(st.entries, entry),
         by_hash |-> MapInsert(st.by_hash, entry.hash, idx),
         by_id |-> MapInsert(st.by_id, entry.record.id, idx),
         latest_hash |-> st.latest_hash]

\* StateAppend writing over the last entry instead of pushing
StateAppendOverwrite(st, entry) ==
    LET idx == IF st.entries = <<>> THEN 0 ELSE Len(st.entries) - 1
    IN  [entries |-> SubSeq(st.entries, 1, idx) \o <<entry>>,
         by_hash |-> MapInsert(st.by_hash, entry.hash, idx),
         by_id |-> MapInsert(st.by_id, entry.record.id, idx),
         latest_hash |-> Some(entry.hash)]

\* StateAppend taking the index after the push
StateAppendIndexAfterPush(st, entry) ==
    LET idx == Len(st.entries) + 1
    IN  [entries |-> Append(st.entries, entry),
         by_hash |-> MapInsert(st.by_hash, entry.hash, idx),
         by_id |-> MapInsert(st.by_id, entry.record.id, idx),
         latest_hash |-> Some(entry.hash)]

\* StateAppend keeping the position an id already has in by_id
StateAppendKeepFirstId(st, entry) ==
    LET idx == Len(st.entries)
    IN  [entries |-> Append(st.entries, entry),
         by_hash |-> MapInsert(st.by_hash, entry.hash, idx),
         by_id |-> IF entry.record.id \in DOMAIN st.by_id THEN st.by_id
                   ELSE MapInsert(st.by_id, entry.record.id, idx),
         latest_hash |-> Some(entry.hash)]

\* LedgerState::append
StateAppend(st, entry) ==
    LET idx == Len(st.entries)
    IN  [entries |-> Append(st.entries, entry),
         by_hash |-> MapInsert(st.by_hash, entry.hash, idx),
         by_id |-> MapInsert(st.by_id, entry.record.id, idx),
         latest_hash |-> Some(entry.hash)]

RECURSIVE StateAppendAll(_, _)
\* `for entry in entries { state.append(entry) }`
StateAppendAll(st, es) ==
    IF es = <<>> THEN st
    ELSE StateAppendAll(StateAppend(st, Head(es)), Tail(es))

\* LedgerState::len
StateLen(st) == Len(st.entries)

\* LedgerState::get_by_hash / get_by_id: Option<&ChainEntry>
GetByHash(st, hash) ==
    IF hash \in DOMAIN st.by_hash THEN Some(st.entries[st.by_hash[hash] + 1]) ELSE None
GetById(st, id) ==
    IF id \in DOMAIN st.by_id THEN Some(st.entries[st.by_id[id] + 1]) ELSE None

(***************************************************************************)
(* SQLite storage backend (nucleus-engine/src/storage/sqlite.rs)           *)
(***************************************************************************)
\* Hash::to_hex / Hash::from_hex
ToHex(hash) == [hex |-> hash]
FromHex(text) == text.hex

\* serde_json::to_string(&record) / serde_json::from_str
SerializeRecord(record) == [json |-> record]
DeserializeRecord(text) == text.json

\* the key of the entries table: one row per hex hash
EntriesKey(row) == row.hash

\* the row save_entry writes; created_at is the record's timestamp
EntryToRow(entry) ==
    [hash |-> ToHex(entry.hash),
     prev_hash |-> IF IsSome(entry.prev_hash)
                   THEN Some(ToHex(Unwrap(entry.prev_hash))) ELSE None,
     record_id |-> entry.record.id,
     stream |-> entry.record.stream,
     timestamp |-> entry.record.timestamp,
     payload |-> entry.record.payload,
     meta |-> entry.record.meta,
     serialized |-> SerializeRecord(entry.record),
     created_at |-> entry.record.timestamp]

\* SqliteStorage::row_to_entry
RowToEntry(row) ==
    [hash |-> FromHex(row.hash),
     prev_hash |-> IF IsSome(row.prev_hash)
                   THEN Some(FromHex(Unwrap(row.prev_hash))) ELSE None,
     record |-> DeserializeRecord(row.serialized)]

\* SqliteStorage::save_entry: INSERT OR REPLACE.  The table is the sequence
\* of its rows in rowid order; a row with the same key is deleted and the
\* new row gets a fresh rowid.
SaveEntry(table, entry) ==
    LET row == EntryToRow(entry)
    IN  Append(SelectSeq(table, LAMBDA r : EntriesKey(r) # EntriesKey(row)), row)

RECURSIVE SaveEntries(_, _)
SaveEntries(table, es) ==
    IF es = <<>> THEN table
    ELSE SaveEntries(SaveEntry(table, Head(es)), Tail(es))

\* insert a row behind every row whose created_at is not larger
InsertByCreatedAt(sorted, row) ==
    LET before == SelectSeq(sorted, LAMBDA r : r.created_at <= row.created_at)
        after == SelectSeq(sorted, LAMBDA r : r.created_at > row.created_at)
    IN  before \o <<row>> \o after

RECURSIVE OrderByCreatedAt(_)
\* ORDER BY created_at ASC; rows with equal created_at stay in rowid order
OrderByCreatedAt(table) ==
    IF table = <<>> THEN <<>>
    ELSE InsertByCreatedAt(OrderByCreatedAt(SubSeq(table, 1, Len(table) - 1)),
                           table[Len(table)])

\* SqliteStorage::load_all_entries
LoadAllEntries(table) ==
    LET rows == OrderByCreatedAt(table)
    IN  [i \in 1..Len(rows) |-> RowToEntry(rows[i])]

(***************************************************************************)
(* Modules (nucleus-core/src/module/proof.rs, asset.rs)                    *)
(***************************************************************************)
\* Value::get(key).is_some(): only an object has keys
PayloadHas(record, key) ==
    record.payload.kind = "object" /\ key \in record.payload.keys

\* ProofModule::before_append
ProofBeforeAppend(record) ==
    IF record.stream # "proofs" THEN "ok"
    ELSE IF ~PayloadHas(record, "subject_oid") THEN "InvalidRecord"
    ELSE IF ~PayloadHas(record, "issuer_oid") THEN "InvalidRecord"
    ELSE "ok"

\* AssetModule::before_append
AssetBeforeAppend(record) ==
    IF record.stream # "assets" THEN "ok"
    ELSE IF ~PayloadHas(record, "owner_oid") THEN "InvalidRecord"
    ELSE "ok"

\* dyn Module dispatch of before_append; neither module mutates the record
ModuleBeforeAppend(module, record) ==
    IF module = "proof" THEN ProofBeforeAppend(record) ELSE AssetBeforeAppend(record)

\* ProofModule::after_append / AssetModule::after_append
ModuleAfterAppend(module, record, hash) == "ok"

\* every string field of a payload in Records holds this value
PayloadValue == "alice"
\* record.payload.get(key).and_then(|v| v.as_str())
PayloadStr(record, key) ==
    IF PayloadHas(record, key) THEN Some(PayloadValue) ELSE None

\* serde_json::Value module filters: null, or an object of string fields
NullFilters == [kind |-> "null", fields |-> <<>>]
ObjectFilters(fields) == [kind |-> "object", fields |-> fields]

\* `if let Some(x) = filters.get(key).and_then(as_str) { if payload x differs
\* { return false } }`
FieldPasses(record, filters, key) ==
    (filters.kind = "object" /\ key \in DOMAIN filters.fields) =>
        PayloadStr(record, key) = Some(filters.fields[key])

\* ProofModule::query
ProofQuery(records, filters) ==
    SelectSeq(records, LAMBDA r :
        /\ r.stream = "proofs"
        /\ FieldPasses(r, filters, "subject_oid")
        /\ FieldPasses(r, filters, "issuer_oid"))

\* AssetModule::query
AssetQuery(records, filters) ==
    SelectSeq(records, LAMBDA r :
        /\ r.stream = "assets"
        /\ FieldPasses(r, filters, "owner_oid"))

\* dyn Module dispatch of query
ModuleQuery(module, records, filters) ==
    IF module = "proof" THEN ProofQuery(records, filters)
    ELSE AssetQuery(records, filters)

(***************************************************************************)
(* Request context (nucleus-core/src/context.rs)                           *)
(***************************************************************************)
\* clock-skew tolerance in milliseconds
FutureThreshold == 300000

\* An OID is the sequence of its ':'-separated segments; the empty string
\* is the single empty segment.
Oid(segments) == segments
EmptyOid == <<"">>
Alice == Oid(<<"oid", "onoal", "human", "alice">>)

\* RequestContext::validate
ContextValidate(ctx, clock) ==
    IF ctx.requester_oid = EmptyOid THEN "RequesterOidMissing"
    ELSE IF ~(Len(ctx.requester_oid) >= 3
              /\ ctx.requester_oid[1] = "oid" /\ ctx.requester_oid[2] = "onoal")
         THEN "InvalidOid"
    ELSE IF Len(ctx.requester_oid) < 4 THEN "InvalidOid"
    ELSE IF ctx.timestamp > clock + FutureThreshold THEN "ValidationFailed"
    ELSE "ok"

(***************************************************************************)
(* In-memory ACL (nucleus-engine/src/acl/memory.rs)                        *)
(***************************************************************************)
\* InMemoryAcl::make_key: format!("{}:{}:{}"), the ':'-joined segments
MakeKey(subject_oid, resource_oid, action) ==
    subject_oid \o resource_oid \o action

\* InMemoryAcl::check; the clock is in milliseconds, expiry in seconds
AclCheck(acl, params, clock) ==
    LET key == MakeKey(params.requester_oid, params.resource_oid, params.action)
    IN  IF key \in DOMAIN acl
        THEN IF IsSome(acl[key].expires_at)
             THEN ~(Unwrap(acl[key].expires_at) < clock \div 1000)
             ELSE TRUE
        ELSE FALSE

\* acl/types.rs Grant; granted_by, granted_at and metadata play no part in
\* any operation and are held fixed
Grant(subject_oid, resource_oid, action, expires_at) ==
    [subject_oid |-> subject_oid, resource_oid |-> resource_oid,
     action |-> action, granted_by |-> Oid(<<"oid", "onoal", "system", "admin">>),
     granted_at |-> 1, expires_at |-> expires_at, metadata |-> None]

\* acl/types.rs CheckParams and RevokeParams
CheckParams(requester_oid, resource_oid, action) ==
    [requester_oid |-> requester_oid, resource_oid |-> resource_oid,
     action |-> action]
RevokeParams(subject_oid, resource_oid, action) ==
    [subject_oid |-> subject_oid, resource_oid |-> resource_oid,
     action |-> action]

\* AclGrant as `entry(key).or_insert(grant)`: an existing grant stays
AclGrantKeepFirst(acl, grant) ==
    LET key == MakeKey(grant.subject_oid, grant.resource_oid, grant.action)
    IN  IF key \in DOMAIN acl THEN acl ELSE MapInsert(acl, key, grant)

\* InMemoryAcl::grant
AclGrant(acl, grant) ==
    LET key == MakeKey(grant.subject_oid, grant.resource_oid, grant.action)
    IN  MapInsert(acl, key, grant)

\* InMemoryAcl::revoke
AclRevoke(acl, params) ==
    LET key == MakeKey(params.subject_oid, params.resource_oid, params.action)
    IN  [k \in (DOMAIN acl) \ {key} |-> acl[k]]

\* AclListGrants dropping a grant in the second it expires
AclListGrantsStrict(acl, subject_oid, clock) ==
    { k \in DOMAIN acl :
        /\ acl[k].subject_oid = subject_oid
        /\ (IsSome(acl[k].expires_at) =>
               Unwrap(acl[k].expires_at) > clock \div 1000) }

\* InMemoryAcl::list_grants: the keys whose grant passes the filter; the
\* clock is in milliseconds, expiry in seconds
AclListGrants(acl, subject_oid, clock) ==
    { k \in DOMAIN acl :
        /\ acl[k].subject_oid = subject_oid
        /\ (IsSome(acl[k].expires_at) =>
               Unwrap(acl[k].expires_at) >= clock \div 1000) }

\* `.values()...collect()`: the Vec holds the grants under the given keys,
\* one each, in the iteration order of the HashMap
Collected(acl, keys) ==
    { list \in [1..Cardinality(keys) -> { acl[k] : k \in keys }] :
        \E order \in [1..Cardinality(keys) -> keys] :
            /\ \A i, j \in 1..Cardinality(keys) : i # j => order[i] # order[j]
            /\ \A i \in 1..Cardinality(keys) : list[i] = acl[order[i]] }

(***************************************************************************)
(* The engine (nucleus-engine/src/engine.rs)                               *)
(***************************************************************************)
VARIABLES
    config,        \* LedgerEngine.config: id, modules, storage, acl
    engine,        \* "live" while a LedgerEngine exists, else "dropped" / "failed"
    module_order,  \* iteration order of ModuleRegistry.modules (a HashMap)
    meta,          \* ModuleRegistry.meta: the ModuleState of each module
    state,         \* LedgerEngine.state: the LedgerState
    table,         \* rows of the SQLite table `entries`, in rowid order
    grants,        \* InMemoryAcl.grants
    now,           \* system clock, unix milliseconds
    op,            \* the last engine operation called
    args,          \* the records, grant or parameters handed to it
    context,       \* the RequestContext handed to it, if it takes one
    result,        \* "ok" or the error it returned
    returned,      \* the hashes it returned
    trace          \* the steps it performed, in order

vars == <<config, engine, module_order, meta, state, table, grants, now,
          op, args, context, result, returned, trace>>

\* a step of an operation: what ran, for which module, on which input record
Event(step, module, k) == <<step, module, k>>

\* the permutations of a sequence of distinct module ids
Orders(modules) ==
    { order \in [1..Len(modules) -> {modules[i] : i \in 1..Len(modules)}] :
        \A i, j \in 1..Len(modules) : i # j => order[i] # order[j] }

(***************************************************************************)
(* Module registry (nucleus-engine/src/module_registry.rs)                 *)
(***************************************************************************)
\* the orders in which a HashMap holding these keys can iterate
IterationOrders(ids) ==
    { order \in [1..Cardinality(ids) -> ids] :
        \A i, j \in 1..Cardinality(ids) : i # j => order[i] # order[j] }

\* ProofModule and AssetModule keep the default init, start and stop of the
\* Module trait, which return Ok; another implementation may return Err
BuiltIn == {"proof", "asset"}
ModuleInit(id, failing) ==
    IF id \notin BuiltIn /\ id \in failing THEN "InitFailed" ELSE "ok"
ModuleStart(id, failing) ==
    IF id \notin BuiltIn /\ id \in failing THEN "StartFailed" ELSE "ok"
ModuleStop(id, failing) ==
    IF id \notin BuiltIn /\ id \in failing THEN "StopFailed" ELSE "ok"

\* ModuleRegistry::with_ledger_id: no module, no metadata
RegistryNew == <<>>

\* ModuleRegistry::register
RegisterOutcome(reg, id) ==
    IF id \in DOMAIN reg
    THEN [result |-> "ModuleAlreadyRegistered", meta |-> reg]
    ELSE [result |-> "ok", meta |-> MapInsert(reg, id, "Registered")]

RECURSIVE InitAllMarkingFirst(_, _, _, _)
\* InitAllFrom setting the state before init has returned
InitAllMarkingFirst(order, i, reg, failing) ==
    IF i > Len(order) THEN [result |-> "ok", meta |-> reg, trace |-> <<>>]
    ELSE LET id == order[i]
             marked == MapInsert(reg, id, "Initialized")
         IN  IF reg[id] \in {"Initialized", "Started"}
             THEN InitAllMarkingFirst(order, i + 1, reg, failing)
             ELSE IF ModuleInit(id, failing) # "ok"
             THEN [result |-> "UnknownModule", meta |-> marked,
                   trace |-> <<Event("init_failed", id, 0)>>]
             ELSE LET rest == InitAllMarkingFirst(order, i + 1, marked, failing)
                  IN  [result |-> rest.result, meta |-> rest.meta,
                       trace |-> <<Event("init", id, 0)>> \o rest.trace]

RECURSIVE InitAllFrom(_, _, _, _)
\* ModuleRegistry::init_all, from the i-th module of the iteration on;
\* `failing` are the modules whose init returns Err in this call
InitAllFrom(order, i, reg, failing) ==
    IF i > Len(order) THEN [result |-> "ok", meta |-> reg, trace |-> <<>>]
    ELSE LET id == order[i]
         IN  IF reg[id] \in {"Initialized", "Started"}
             THEN InitAllFrom(order, i + 1, reg, failing)
             ELSE IF ModuleInit(id, failing) # "ok"
             THEN [result |-> "UnknownModule", meta |-> reg,
                   trace |-> <<Event("init_failed", id, 0)>>]
             ELSE LET rest == InitAllFrom(order, i + 1,
                                          MapInsert(reg, id, "Initialized"), failing)
                  IN  [result |-> rest.result, meta |-> rest.meta,
                       trace |-> <<Event("init", id, 0)>> \o rest.trace]

RECURSIVE StartAllFrom(_, _, _, _)
\* ModuleRegistry::start_all
StartAllFrom(order, i, reg, failing) ==
    IF i > Len(order) THEN [result |-> "ok", meta |-> reg, trace |-> <<>>]
    ELSE LET id == order[i]
         IN  IF reg[id] # "Initialized"
             THEN StartAllFrom(order, i + 1, reg, failing)
             ELSE IF ModuleStart(id, failing) # "ok"
             THEN [result |-> "UnknownModule", meta |-> reg,
                   trace |-> <<Event("start_failed", id, 0)>>]
             ELSE LET rest == StartAllFrom(order, i + 1,
                                           MapInsert(reg, id, "Started"), failing)
                  IN  [result |-> rest.result, meta |-> rest.meta,
                       trace |-> <<Event("start", id, 0)>> \o rest.trace]

RECURSIVE StopAllFailFast(_, _, _, _)
\* StopAllFrom giving up at the first stop that fails
StopAllFailFast(order, i, reg, failing) ==
    IF i > Len(order) THEN [result |-> "ok", meta |-> reg, trace |-> <<>>]
    ELSE LET id == order[i]
         IN  IF reg[id] # "Started"
             THEN StopAllFailFast(order, i + 1, reg, failing)
             ELSE IF ModuleStop(id, failing) # "ok"
             THEN [result |-> "ok", meta |-> reg,
                   trace |-> <<Event("stop_failed", id, 0)>>]
             ELSE LET rest == StopAllFailFast(order, i + 1,
                                              MapInsert(reg, id, "Stopped"), failing)
                  IN  [result |-> "ok", meta |-> rest.meta,
                       trace |-> <<Event("stop", id, 0)>> \o rest.trace]

RECURSIVE StopAllFrom(_, _, _, _)
\* ModuleRegistry::stop_all: a failing stop is logged, the state is set
\* to Stopped all the same, and the loop goes on
StopAllFrom(order, i, reg, failing) ==
    IF i > Len(order) THEN [result |-> "ok", meta |-> reg, trace |-> <<>>]
    ELSE LET id == order[i]
         IN  IF reg[id] # "Started"
             THEN StopAllFrom(order, i + 1, reg, failing)
             ELSE LET rest == StopAllFrom(order, i + 1,
                                          MapInsert(reg, id, "Stopped"), failing)
                      ev == IF ModuleStop(id, failing) # "ok"
                            THEN Event("stop_failed", id, 0)
                            ELSE Event("stop", id, 0)
                  IN  [result |-> "ok", meta |-> rest.meta,
                       trace |-> <<ev>> \o rest.trace]

RECURSIVE LoadFromConfig(_, _, _)
\* ModuleRegistry::load_from_config, from the i-th ModuleConfig on
LoadFromConfig(reg, configs, i) ==
    IF i > Len(configs) THEN [result |-> "ok", meta |-> reg]
    ELSE IF configs[i] \notin BuiltIn
    THEN [result |-> "UnknownModule", meta |-> reg]
    ELSE LET r == RegisterOutcome(reg, configs[i])
         IN  IF r.result # "ok" THEN r
             ELSE LoadFromConfig(r.meta, configs, i + 1)

\* NewModules leaving out start_all
NewModulesNotStarted(cfg, order) ==
    LET loaded == LoadFromConfig(RegistryNew, cfg.modules, 1)
        inited == InitAllFrom(order, 1, loaded.meta, {})
    IN  IF loaded.result # "ok" THEN [result |-> loaded.result, meta |-> loaded.meta]
        ELSE [result |-> inited.result, meta |-> inited.meta]

\* LedgerEngine::new, the module set-up: load_from_config(..)?, init_all()?,
\* start_all()? on a fresh registry iterating in the given order
NewModules(cfg, order) ==
    LET loaded == LoadFromConfig(RegistryNew, cfg.modules, 1)
        inited == InitAllFrom(order, 1, loaded.meta, {})
        started == StartAllFrom(order, 1, inited.meta, {})
    IN  IF loaded.result # "ok" THEN [result |-> loaded.result, meta |-> loaded.meta]
        ELSE IF inited.result # "ok"
        THEN [result |-> inited.result, meta |-> inited.meta]
        ELSE [result |-> started.result, meta |-> started.meta]

\* LedgerResource as "ledger:{id}"
LedgerResourceShort(cfg) == Oid(<<"ledger", cfg.id>>)

\* the resource the engine checks write access on
LedgerResource(cfg) == Oid(<<"oid", "onoal", "ledger", cfg.id>>)

\* steps 1 and 2 of append_record / append_batch: context.validate()?, then
\* the ACL check when an ACL backend is configured
AccessGate(cfg, acl, ctx, clock) ==
    IF ContextValidate(ctx, clock) # "ok" THEN "Context"
    ELSE IF cfg.acl = "InMemory"
            /\ ~AclCheck(acl, [requester_oid |-> ctx.requester_oid,
                               resource_oid |-> LedgerResource(cfg),
                               action |-> <<"write">>], clock)
         THEN "AccessDenied"
    ELSE "ok"

RECURSIVE BeforeHooks(_, _, _, _)
\* `for module in all_modules() { module.before_append(&mut record)?; }`
\* from module i on, for input record k
BeforeHooks(order, i, record, k) ==
    IF i > Len(order) THEN [result |-> "ok", trace |-> <<>>]
    ELSE LET r == ModuleBeforeAppend(order[i], record)
             ev == <<Event("before_append", order[i], k)>>
         IN  IF r # "ok" THEN [result |-> "Core", trace |-> ev]
             ELSE LET rest == BeforeHooks(order, i + 1, record, k)
                  IN  [result |-> rest.result, trace |-> ev \o rest.trace]

RECURSIVE AfterHooks(_, _, _, _)
\* `for module in all_modules() { module.after_append(&record, &hash)?; }`
AfterHooks(order, i, record, k) ==
    IF i > Len(order) THEN [result |-> "ok", trace |-> <<>>]
    ELSE LET r == ModuleAfterAppend(order[i], record, ComputeHash(record))
             ev == <<Event("after_append", order[i], k)>>
         IN  IF r # "ok" THEN [result |-> "Core", trace |-> ev]
             ELSE LET rest == AfterHooks(order, i + 1, record, k)
                  IN  [result |-> rest.result, trace |-> ev \o rest.trace]

\* what a call did: its result, the hashes it returned, the entries it wrote
\* to storage and the entries it appended to LedgerState, and its steps
Outcome(res, hashes, saved, committed, steps) ==
    [result |-> res, returned |-> hashes, saved |-> saved,
     committed |-> committed, trace |-> steps]

\* the EngineError a failing step is converted to by `?`
ErrorOf(step, gate) ==
    IF step = "gate" THEN gate
    ELSE IF step = "validate_record" THEN "Record"
    ELSE IF step = "save_entry" THEN "Storage"
    ELSE IF step = "none" THEN "ok"
    ELSE "Core"

\* ChainEntry::new starts with record.validate()?
ChainEntryNewResult(record) ==
    IF RecordValidate(record) # "ok" THEN "Record" ELSE "ok"

\* SavedByAppendRecord with the save moved in front of the before_append hooks
SavedBeforeHooks(cfg, failed, entry) ==
    IF cfg.storage = "Sqlite"
       /\ failed \in {"before_append", "chain_entry", "after_append", "none"}
    THEN <<entry>> ELSE <<>>

\* append_record, steps 7 and 8: the entry is in storage once save_entry has
\* returned Ok, whatever the after_append hooks do
SavedByAppendRecord(cfg, failed, entry) ==
    IF cfg.storage = "Sqlite" /\ failed \in {"after_append", "none"}
    THEN <<entry>> ELSE <<>>

\* CommittedByAppendRecord with state.append moved in front of the save
CommittedBeforeSave(failed, entry) ==
    IF failed \in {"none", "save_entry", "after_append"} THEN <<entry>> ELSE <<>>

\* append_record, last step: state.append(entry) runs only when no earlier
\* step has returned
CommittedByAppendRecord(failed, entry) ==
    IF failed = "none" THEN <<entry>> ELSE <<>>

\* LedgerEngine::append_record; save_ok is whether storage.save_entry succeeds
AppendRecordOutcome(cfg, order, st, acl, clock, record, ctx, save_ok) ==
    LET gate == AccessGate(cfg, acl, ctx, clock)
        before == BeforeHooks(order, 1, record, 1)
        prev_hash == st.latest_hash
        entry == ChainEntryNew(record, prev_hash)
        after == AfterHooks(order, 1, record, 1)
        stored == cfg.storage = "Sqlite"
        failed ==
            IF gate # "ok" THEN "gate"
            ELSE IF RecordValidate(record) # "ok" THEN "validate_record"
            ELSE IF before.result # "ok" THEN "before_append"
            ELSE IF ChainEntryNewResult(record) # "ok" THEN "chain_entry"
            ELSE IF stored /\ ~save_ok THEN "save_entry"
            ELSE IF after.result # "ok" THEN "after_append"
            ELSE "none"
        t3 == <<Event("validate_record", "", 1)>>
        t4 == t3 \o before.trace
        t6 == t4 \o <<Event("chain_entry", "", 1)>>
        t7 == t6 \o (IF stored THEN <<Event("save_entry", "", 1)>> ELSE <<>>)
        t8 == t7 \o after.trace
        steps ==
            IF failed = "gate" THEN <<>>
            ELSE IF failed = "validate_record" THEN t3
            ELSE IF failed = "before_append" THEN t4
            ELSE IF failed = "chain_entry" THEN t6
            ELSE IF failed = "save_entry" THEN t7
            ELSE IF failed = "after_append" THEN t8
            ELSE t8 \o <<Event("state_append", "", 1)>>
    IN  Outcome(ErrorOf(failed, gate),
                IF failed = "none" THEN <<entry.hash>> ELSE <<>>,
                SavedByAppendRecord(cfg, failed, entry),
                CommittedByAppendRecord(failed, entry),
                steps)

\* ValidateAll stopping after the first record
ValidateHeadOnly(records, k) ==
    IF k > Len(records) THEN [result |-> "ok", trace |-> <<>>]
    ELSE [result |-> IF RecordValidate(records[k]) # "ok" THEN "Record" ELSE "ok",
          trace |-> <<Event("validate_record", "", k)>>]

RECURSIVE ValidateAll(_, _)
\* `for record in &records { record.validate()?; }` from record k on
ValidateAll(records, k) ==
    IF k > Len(records) THEN [result |-> "ok", trace |-> <<>>]
    ELSE LET ev == <<Event("validate_record", "", k)>>
         IN  IF RecordValidate(records[k]) # "ok"
             THEN [result |-> "Record", trace |-> ev]
             ELSE LET rest == ValidateAll(records, k + 1)
                  IN  [result |-> rest.result, trace |-> ev \o rest.trace]

RECURSIVE BeforeAll(_, _, _)
\* step 4 of append_batch: every record through every before_append hook
BeforeAll(order, records, k) ==
    IF k > Len(records) THEN [result |-> "ok", trace |-> <<>>]
    ELSE LET b == BeforeHooks(order, 1, records[k], k)
         IN  IF b.result # "ok" THEN b
             ELSE LET rest == BeforeAll(order, records, k + 1)
                  IN  [result |-> rest.result, trace |-> b.trace \o rest.trace]

RECURSIVE BuildEntriesOnStartingTip(_, _, _, _)
\* BuildEntries linking every entry to the tip the batch started from
BuildEntriesOnStartingTip(order, records, k, prev_hash) ==
    IF k > Len(records) THEN [result |-> "ok", entries |-> <<>>, trace |-> <<>>]
    ELSE LET entry == ChainEntryNew(records[k], prev_hash)
             a == AfterHooks(order, 1, records[k], k)
             ev == <<Event("chain_entry", "", k)>>
         IN  IF ChainEntryNewResult(records[k]) # "ok"
             THEN [result |-> "Core", entries |-> <<>>, trace |-> ev]
             ELSE IF a.result # "ok"
             THEN [result |-> a.result, entries |-> <<>>, trace |-> ev \o a.trace]
             ELSE LET rest == BuildEntriesOnStartingTip(order, records, k + 1, prev_hash)
                  IN  [result |-> rest.result,
                       entries |-> <<entry>> \o rest.entries,
                       trace |-> ev \o a.trace \o rest.trace]

RECURSIVE BuildEntries(_, _, _, _)
\* step 6 of append_batch: the chain entry of record k on the running
\* prev_hash, then its after_append hooks, then the next record
BuildEntries(order, records, k, prev_hash) ==
    IF k > Len(records) THEN [result |-> "ok", entries |-> <<>>, trace |-> <<>>]
    ELSE LET entry == ChainEntryNew(records[k], prev_hash)
             a == AfterHooks(order, 1, records[k], k)
             ev == <<Event("chain_entry", "", k)>>
         IN  IF ChainEntryNewResult(records[k]) # "ok"
             THEN [result |-> "Core", entries |-> <<>>, trace |-> ev]
             ELSE IF a.result # "ok"
             THEN [result |-> a.result, entries |-> <<>>, trace |-> ev \o a.trace]
             ELSE LET rest == BuildEntries(order, records, k + 1, Some(entry.hash))
                  IN  [result |-> rest.result,
                       entries |-> <<entry>> \o rest.entries,
                       trace |-> ev \o a.trace \o rest.trace]

\* the save_entry events of the first n entries
SaveEvents(n) == [k \in 1..n |-> Event("save_entry", "", k)]
AppendEvents(n) == [k \in 1..n |-> Event("state_append", "", k)]

\* append_batch, the save loop: `for entry in &entries { save_entry(entry)? }`
\* has written the entries before the failing call when call number fail_at
\* fails (0: none fails), and nothing is undone
SavedByAppendBatch(cfg, failed, entries, fail_at) ==
    IF cfg.storage # "Sqlite" THEN <<>>
    ELSE IF failed = "save_entry" THEN SubSeq(entries, 1, fail_at - 1)
    ELSE IF failed = "none" THEN entries
    ELSE <<>>

\* CommittedByAppendBatch appending although a save has failed
CommittedDespiteSaveFailure(failed, entries) ==
    IF failed \in {"none", "save_entry"} THEN entries ELSE <<>>

\* append_batch, last loop: every entry is appended to LedgerState, and
\* only when nothing before has returned
CommittedByAppendBatch(failed, entries) ==
    IF failed = "none" THEN entries ELSE <<>>

\* LedgerEngine::append_batch; fail_at is the number of the save_entry call
\* that fails (0: none)
AppendBatchOutcome(cfg, order, st, acl, clock, records, ctx, fail_at) ==
    LET gate == AccessGate(cfg, acl, ctx, clock)
        valid == ValidateAll(records, 1)
        before == BeforeAll(order, records, 1)
        built == BuildEntries(order, records, 1, st.latest_hash)
        entries == built.entries
        stored == cfg.storage = "Sqlite"
        failed ==
            IF gate # "ok" THEN "gate"
            ELSE IF valid.result # "ok" THEN "validate_record"
            ELSE IF before.result # "ok" THEN "before_append"
            ELSE IF built.result # "ok" THEN "chain_entry"
            ELSE IF stored /\ fail_at \in 1..Len(entries) THEN "save_entry"
            ELSE "none"
        t4 == valid.trace \o before.trace
        t6 == t4 \o built.trace
        steps ==
            IF failed = "gate" THEN <<>>
            ELSE IF failed = "validate_record" THEN valid.trace
            ELSE IF failed = "before_append" THEN t4
            ELSE IF failed = "chain_entry" THEN t6
            ELSE IF failed = "save_entry" THEN t6 \o SaveEvents(fail_at)
            ELSE t6 \o (IF stored THEN SaveEvents(Len(entries)) ELSE <<>>)
                    \o AppendEvents(Len(entries))
    IN  Outcome(ErrorOf(failed, gate),
                IF failed = "none" THEN [k \in 1..Len(entries) |-> entries[k].hash]
                ELSE <<>>,
                SavedByAppendBatch(cfg, failed, entries, fail_at),
                CommittedByAppendBatch(failed, entries),
                steps)

\* NewOutcome hydrating without looking at the verification result
NewOutcomeUnverified(cfg, rows) ==
    LET entries == IF cfg.storage = "Sqlite" THEN LoadAllEntries(rows) ELSE <<>>
    IN  [result |-> "ok", state |-> StateAppendAll(LedgerStateNew, entries)]

\* LedgerEngine::new, from the storage load on; config validation and the
\* module set-up have succeeded
NewOutcome(cfg, rows) ==
    LET entries == IF cfg.storage = "Sqlite" THEN LoadAllEntries(rows) ELSE <<>>
        verification == VerifyChain(entries)
    IN  IF entries # <<>> /\ ~verification.valid
        THEN [result |-> "ChainInvalid", state |-> LedgerStateNew]
        ELSE [result |-> "ok", state |-> StateAppendAll(LedgerStateNew, entries)]

\* query.rs QueryFilters
QueryFilters(stream, id, limit, offset, timestamp_from, timestamp_to, module_filters) ==
    [stream |-> stream, id |-> id, limit |-> limit, offset |-> offset,
     timestamp_from |-> timestamp_from, timestamp_to |-> timestamp_to,
     module_filters |-> module_filters]

RECURSIVE QueryModules(_, _, _, _)
\* `for module in all_modules() { records = module.query(records, filters) }`
QueryModules(order, i, records, filters) ==
    IF i > Len(order) THEN records
    ELSE QueryModules(order, i + 1, ModuleQuery(order[i], records, filters), filters)

\* QuerySelect comparing the upper end of the timestamp range strictly
QuerySelectExclusiveTo(st, filters) ==
    LET by_stream == IF IsSome(filters.stream)
                     THEN SelectSeq(st.entries,
                              LAMBDA e : e.record.stream = Unwrap(filters.stream))
                     ELSE st.entries
        by_id == IF IsSome(filters.id)
                 THEN SelectSeq(by_stream, LAMBDA e : e.record.id = Unwrap(filters.id))
                 ELSE by_stream
        by_from == IF IsSome(filters.timestamp_from)
                   THEN SelectSeq(by_id,
                            LAMBDA e : e.record.timestamp >= Unwrap(filters.timestamp_from))
                   ELSE by_id
        by_to == IF IsSome(filters.timestamp_to)
                 THEN SelectSeq(by_from,
                          LAMBDA e : e.record.timestamp < Unwrap(filters.timestamp_to))
                 ELSE by_from
    IN  [i \in 1..Len(by_to) |-> by_to[i].record]

\* LedgerEngine::query, the retains by stream, id and timestamp range and the
\* clone of the records left
QuerySelect(st, filters) ==
    LET by_stream == IF IsSome(filters.stream)
                     THEN SelectSeq(st.entries,
                              LAMBDA e : e.record.stream = Unwrap(filters.stream))
                     ELSE st.entries
        by_id == IF IsSome(filters.id)
                 THEN SelectSeq(by_stream, LAMBDA e : e.record.id = Unwrap(filters.id))
                 ELSE by_stream
        by_from == IF IsSome(filters.timestamp_from)
                   THEN SelectSeq(by_id,
                            LAMBDA e : e.record.timestamp >= Unwrap(filters.timestamp_from))
                   ELSE by_id
        by_to == IF IsSome(filters.timestamp_to)
                 THEN SelectSeq(by_from,
                          LAMBDA e : e.record.timestamp <= Unwrap(filters.timestamp_to))
                 ELSE by_from
    IN  [i \in 1..Len(by_to) |-> by_to[i].record]

\* QueryPage telling has_more from the page and the limit alone
QueryPageIgnoringOffset(records, filters) ==
    LET total == Len(records)
        offset == IF IsSome(filters.offset) THEN Unwrap(filters.offset) ELSE 0
        limit == IF IsSome(filters.limit) THEN Unwrap(filters.limit) ELSE Len(records)
        skipped == SubSeq(records, offset + 1, Len(records))
        page == SubSeq(skipped, 1, IF limit < Len(skipped) THEN limit ELSE Len(skipped))
    IN  [records |-> page, total |-> total, has_more |-> Len(page) < total]

\* LedgerEngine::query, total, skip(offset).take(limit) and has_more
QueryPage(records, filters) ==
    LET total == Len(records)
        offset == IF IsSome(filters.offset) THEN Unwrap(filters.offset) ELSE 0
        limit == IF IsSome(filters.limit) THEN Unwrap(filters.limit) ELSE Len(records)
        skipped == SubSeq(records, offset + 1, Len(records))
        page == SubSeq(skipped, 1, IF limit < Len(skipped) THEN limit ELSE Len(skipped))
    IN  [records |-> page, total |-> total,
         has_more |-> (offset + Len(page)) < total]

\* LedgerEngine::query
QueryOutcome(st, order, filters) ==
    LET cloned == QuerySelect(st, filters)
        asks_modules == /\ filters.module_filters.kind = "object"
                        /\ DOMAIN filters.module_filters.fields # {}
        records == IF asks_modules
                   THEN QueryModules(order, 1, cloned, filters.module_filters)
                   ELSE cloned
        paged == QueryPage(records, filters)
    IN  [records |-> paged.records,
         total |-> paged.total,
         has_more |-> paged.has_more,
         trace |-> IF asks_modules
                   THEN [i \in 1..Len(order) |-> Event("query", order[i], 0)]
                   ELSE <<>>]

\* LedgerEngine::get_record_by_id
GetRecordById(st, id) ==
    IF IsSome(GetById(st, id)) THEN Some(Unwrap(GetById(st, id)).record) ELSE None

\* LedgerEngine::grant
GrantOutcome(cfg, acl, grant) ==
    IF cfg.acl = "InMemory"
    THEN [result |-> "ok", grants |-> AclGrant(acl, grant)]
    ELSE [result |-> "Configuration", grants |-> acl]

\* CheckAccessOutcome denying when no ACL backend is configured
CheckAccessDefaultDeny(cfg, acl, params, clock) ==
    IF cfg.acl = "InMemory" THEN AclCheck(acl, params, clock) ELSE FALSE

\* LedgerEngine::check_access: Ok(allowed)
CheckAccessOutcome(cfg, acl, params, clock) ==
    IF cfg.acl = "InMemory" THEN AclCheck(acl, params, clock) ELSE TRUE

\* RevokeOutcome passing through without an ACL backend
RevokeUnconfigured(cfg, acl, params) ==
    [result |-> "ok", grants |-> AclRevoke(acl, params)]

\* LedgerEngine::revoke
RevokeOutcome(cfg, acl, params) ==
    IF cfg.acl = "InMemory"
    THEN [result |-> "ok", grants |-> AclRevoke(acl, params)]
    ELSE [result |-> "Configuration", grants |-> acl]

\* LedgerEngine::list_grants: the Vecs it can return, all with Ok
ListGrantsOutcome(cfg, acl, subject_oid, clock) ==
    IF cfg.acl = "InMemory"
    THEN Collected(acl, AclListGrants(acl, subject_oid, clock))
    ELSE { <<>> }

(***************************************************************************)
(* Inputs                                                                  *)
(***************************************************************************)
Contexts ==
    { [requester_oid |-> Alice, timestamp |-> 0],
      [requester_oid |-> Oid(<<"oid", "onoal", "alice">>), timestamp |-> 0] }

\* the contexts of Contexts that pass RequestContext::validate
ValidContexts == { ctx \in Contexts : ContextValidate(ctx, 0) = "ok" }

Batches == UNION { [1..n -> Records] : n \in 0..MaxBatch }

Configs ==
    { [id |-> "test", modules |-> <<"proof", "asset">>, storage |-> s, acl |-> "None"] :
        s \in {"None", "Sqlite"} }

(***************************************************************************)
(* Actions                                                                 *)
(***************************************************************************)
Init ==
    /\ config \in Configs
    /\ engine = "live"
    /\ module_order \in Orders(config.modules)
    /\ meta = NewModules(config, module_order).meta
    /\ state = LedgerStateNew
    /\ table = <<>>
    /\ grants = <<>>
    /\ now = 0
    /\ op = "new"
    /\ args = <<>>
    /\ context = None
    /\ result = "ok"
    /\ returned = <<>>
    /\ trace = <<>>

\* apply what a call did to the engine's state and storage
Apply(name, records, ctx, o) ==
    /\ state' = StateAppendAll(state, o.committed)
    /\ table' = SaveEntries(table, o.saved)
    /\ op' = name
    /\ args' = records
    /\ context' = Some(ctx)
    /\ result' = o.result
    /\ returned' = o.returned
    /\ trace' = o.trace
    /\ UNCHANGED <<config, engine, module_order, meta, grants, now>>

\* append_record called with a record and a context of the given sets
AppendRecordFrom(records, contexts) ==
    /\ engine = "live"
    /\ Len(state.entries) < MaxLen
    /\ \E record \in records, ctx \in contexts, save_ok \in BOOLEAN :
          Apply("append_record", <<record>>, ctx,
                AppendRecordOutcome(config, module_order, state, grants, now,
                                    record, ctx, save_ok))

AppendRecord == AppendRecordFrom(Records, Contexts)

\* append_batch called with a batch and a context of the given sets
AppendBatchFrom(batches, contexts) ==
    /\ engine = "live"
    /\ \E records \in batches, ctx \in contexts :
       \E fail_at \in 0..Len(records) :
          /\ Len(state.entries) + Len(records) <= MaxLen
          /\ Apply("append_batch", records, ctx,
                   AppendBatchOutcome(config, module_order, state, grants, now,
                                      records, ctx, fail_at))

AppendBatch == AppendBatchFrom(Batches, Contexts)

\* impl Drop for LedgerEngine: modules.stop_all(); the engine is gone, the
\* database file stays.  The LedgerState and the module metadata it held are
\* left in `state` and `meta` for comparison with the engine that is
\* constructed next; nothing reads them while no engine lives.
Drop ==
    /\ engine = "live"
    /\ engine' = "dropped"
    /\ state' = state
    /\ LET stopped == StopAllFrom(module_order, 1, meta, {})
       IN  /\ meta' = stopped.meta
           /\ trace' = stopped.trace
    /\ op' = "drop"
    /\ args' = <<>>
    /\ context' = None
    /\ result' = "ok"
    /\ returned' = <<>>
    /\ UNCHANGED <<config, module_order, table, grants, now>>

\* LedgerEngine::new over the same configuration and storage path
New ==
    /\ engine # "live"
    /\ module_order' \in Orders(config.modules)
    /\ LET m == NewModules(config, module_order')
           o == NewOutcome(config, table)
       IN  /\ meta' = m.meta
           /\ IF m.result # "ok"
              THEN /\ engine' = "failed"
                   /\ state' = LedgerStateNew
                   /\ result' = m.result
              ELSE /\ engine' = IF o.result = "ok" THEN "live" ELSE "failed"
                   /\ state' = o.state
                   /\ result' = o.result
    /\ grants' = <<>>
    /\ op' = "new"
    /\ args' = <<>>
    /\ context' = None
    /\ returned' = <<>>
    /\ trace' = <<>>
    /\ UNCHANGED <<config, table, now>>

Next == AppendRecord \/ AppendBatch \/ Drop \/ New

Spec == Init /\ [][Next]_vars

\* the engine driven through append_record only
NextRecord == AppendRecord \/ Drop \/ New

SpecRecord == Init /\ [][NextRecord]_vars

\* the engine driven through append_record by a caller that never submits
\* a record whose content the ledger or the storage already holds
FreshRecord(record) ==
    /\ \A i \in 1..Len(state.entries) : state.entries[i].hash # ComputeHash(record)
    /\ \A i \in 1..Len(table) : FromHex(table[i].hash) # ComputeHash(record)

AppendFreshRecord == AppendRecord /\ FreshRecord(args'[1])

NextFresh == AppendFreshRecord \/ Drop \/ New

SpecFresh == Init /\ [][NextFresh]_vars

(***************************************************************************)
(* The engine with access control                                          *)
(***************************************************************************)
AclConfigs ==
    { [id |-> "test", modules |-> <<"proof", "asset">>, storage |-> "None", acl |-> a] :
        a \in {"None", "InMemory"} }

\* the (subject, resource, action) triples callers name: alice's write and
\* read permission on the ledger resource, alice's write permission on the
\* resource "ledger:{id}", and the write permission of "oid:onoal:human" on
\* "alice:oid:onoal:ledger:{id}"
Triples(cfg) ==
    { <<Alice, Oid(<<"oid", "onoal", "ledger", cfg.id>>), <<"write">>>>,
      <<Alice, Oid(<<"oid", "onoal", "ledger", cfg.id>>), <<"read">>>>,
      <<Alice, Oid(<<"ledger", cfg.id>>), <<"write">>>>,
      <<Oid(<<"oid", "onoal", "human">>),
        Oid(<<"alice", "oid", "onoal", "ledger", cfg.id>>), <<"write">>>> }

\* expires_at of the grants callers insert
Expiries == { None, Some(1) }

\* the records and batches submitted to the access-controlled engine: one
\* the engine accepts and one record validation rejects
AclRecords == { r \in Records : r.stream = "assets" }
AclBatches == UNION { [1..n -> AclRecords] : n \in 0..MaxBatch }

InitAcl ==
    /\ config \in AclConfigs
    /\ engine = "live"
    /\ module_order \in Orders(config.modules)
    /\ meta = NewModules(config, module_order).meta
    /\ state = LedgerStateNew
    /\ table = <<>>
    /\ grants = <<>>
    /\ now = 1000
    /\ op = "new"
    /\ args = <<>>
    /\ context = None
    /\ result = "ok"
    /\ returned = <<>>
    /\ trace = <<>>

AclAppendRecord == AppendRecordFrom(AclRecords, Contexts)
AclAppendBatch == AppendBatchFrom(AclBatches, Contexts)

\* LedgerEngine::grant
EngineGrant ==
    /\ engine = "live"
    /\ \E t \in Triples(config), expires_at \in Expiries :
          LET grant == Grant(t[1], t[2], t[3], expires_at)
              o == GrantOutcome(config, grants, grant)
          IN  /\ grants' = o.grants
              /\ op' = "grant"
              /\ args' = <<grant>>
              /\ result' = o.result
              /\ trace' =
                   IF o.result # "ok" THEN <<>>
                   ELSE IF MakeKey(t[1], t[2], t[3]) \in DOMAIN grants
                        THEN <<Event("replace_grant", "", 1)>>
                        ELSE <<Event("insert_grant", "", 1)>>
    /\ context' = None
    /\ returned' = <<>>
    /\ UNCHANGED <<config, engine, module_order, meta, state, table, now>>

\* LedgerEngine::check_access
CheckAccess ==
    /\ engine = "live"
    /\ \E t \in Triples(config) :
          LET params == CheckParams(t[1], t[2], t[3])
          IN  /\ op' = "check_access"
              /\ args' = <<params>>
              /\ returned' = <<CheckAccessOutcome(config, grants, params, now)>>
    /\ result' = "ok"
    /\ context' = None
    /\ trace' = <<>>
    /\ UNCHANGED <<config, engine, module_order, meta, state, table, grants, now>>

\* LedgerEngine::revoke
Revoke ==
    /\ engine = "live"
    /\ \E t \in Triples(config) :
          LET params == RevokeParams(t[1], t[2], t[3])
              o == RevokeOutcome(config, grants, params)
          IN  /\ grants' = o.grants
              /\ op' = "revoke"
              /\ args' = <<params>>
              /\ result' = o.result
    /\ context' = None
    /\ returned' = <<>>
    /\ trace' = <<>>
    /\ UNCHANGED <<config, engine, module_order, meta, state, table, now>>

\* LedgerEngine::list_grants
ListGrants ==
    /\ engine = "live"
    /\ \E t \in Triples(config) :
          /\ op' = "list_grants"
          /\ args' = <<t[1]>>
          /\ returned' \in ListGrantsOutcome(config, grants, t[1], now)
    /\ result' = "ok"
    /\ context' = None
    /\ trace' = <<>>
    /\ UNCHANGED <<config, engine, module_order, meta, state, table, grants, now>>

\* a second passes on the system clock
Tick ==
    /\ now \div 1000 < MaxClock
    /\ now' = now + 1000
    /\ op' = "tick"
    /\ args' = <<>>
    /\ context' = None
    /\ result' = "ok"
    /\ returned' = <<>>
    /\ trace' = <<>>
    /\ UNCHANGED <<config, engine, module_order, meta, state, table, grants>>

NextAcl ==
    \/ AclAppendRecord \/ AclAppendBatch
    \/ EngineGrant \/ CheckAccess \/ Revoke \/ ListGrants
    \/ Tick

SpecAcl == InitAcl /\ [][NextAcl]_vars

(***************************************************************************)
(* The engine with its queries                                             *)
(***************************************************************************)
\* the filters callers query with
Filters ==
    { QueryFilters(stream, None, limit, None, None, None, module_filters) :
        stream \in {None, Some("proofs")},
        limit \in {None, Some(1)},
        module_filters \in { ObjectFilters(<<>>), NullFilters,
                             ObjectFilters([owner_oid |-> "alice"]),
                             ObjectFilters([subject_oid |-> "bob"]) } }

\* LedgerEngine::query called with one of the given filters
QueryFrom(filterSet) ==
    /\ engine = "live"
    /\ \E filters \in filterSet :
          LET o == QueryOutcome(state, module_order, filters)
          IN  /\ op' = "query"
              /\ args' = <<filters>>
              /\ returned' = <<[records |-> o.records, total |-> o.total,
                                has_more |-> o.has_more]>>
              /\ trace' = o.trace
    /\ result' = "ok"
    /\ context' = None
    /\ UNCHANGED <<config, engine, module_order, meta, state, table, grants, now>>

Query == QueryFrom(Filters)

NextHooks == AppendRecord \/ AppendBatch \/ Query \/ Drop \/ New

SpecHooks == Init /\ [][NextHooks]_vars

(***************************************************************************)
(* The engine read through get_record_by_id, len and query                 *)
(***************************************************************************)
\* no module filters: QueryFilters::default().module_filters
NoModuleFilters == ObjectFilters(<<>>)

\* filters that select by stream, id and timestamp range
SelectionFilters ==
    { QueryFilters(stream, id, None, None, from, to, NoModuleFilters) :
        stream \in {None, Some("proofs"), Some("assets")},
        id \in {None, Some("r2")},
        from \in {None, Some(2)},
        to \in {None, Some(1), Some(2)} }

\* filters that page through the matches
PageFilters ==
    { QueryFilters(stream, None, limit, offset, None, None, module_filters) :
        stream \in {None, Some("proofs")},
        limit \in {None, Some(0), Some(1)},
        offset \in {None, Some(1), Some(MaxLen + 1)},
        module_filters \in {NoModuleFilters, ObjectFilters([subject_oid |-> "alice"])} }

\* filters on the domain field of a module
DomainFilters ==
    { QueryFilters(None, None, None, None, None, None, ObjectFilters(fields)) :
        fields \in { [subject_oid |-> "alice"], [subject_oid |-> "bob"],
                     [owner_oid |-> "alice"], [owner_oid |-> "bob"] } }

ReadFilters == SelectionFilters \cup PageFilters \cup DomainFilters

\* the records appended before reading: two streams, three timestamps, an
\* id shared by two records and an id of its own
ReadRecords ==
    { Record("r1", "proofs", 2, ObjectPayload({"subject_oid", "issuer_oid"})),
      Record("r2", "assets", 1, ObjectPayload({"owner_oid"})),
      Record("r2", "proofs", 1, ObjectPayload({"subject_oid", "issuer_oid"})),
      Record("r3", "assets", 3, ObjectPayload({"owner_oid"})) }

\* the ids callers look up: held once, held by several records, never held
LookupIds == {"r1", "r2", "r9"}

EngineGetRecordById ==
    /\ engine = "live"
    /\ \E id \in LookupIds :
          /\ op' = "get_record_by_id"
          /\ args' = <<id>>
          /\ returned' = <<GetRecordById(state, id), StateLen(state)>>
    /\ result' = "ok"
    /\ context' = None
    /\ trace' = <<>>
    /\ UNCHANGED <<config, engine, module_order, meta, state, table, grants, now>>

NextQuery ==
    \/ AppendRecordFrom(ReadRecords, ValidContexts)
    \/ EngineGetRecordById
    \/ QueryFrom(ReadFilters)

\* an engine kept in memory: the reads never touch the storage
InitQuery == Init /\ config.storage = "None"

SpecQuery == InitQuery /\ [][NextQuery]_vars

(***************************************************************************)
(* The module registry driven directly, then owned by an engine            *)
(***************************************************************************)
\* the modules callers register: a built-in one and two implementations of
\* the Module trait whose init, start and stop may fail
ModuleIds == {"proof", "audit", "index"}

\* a registry fresh from ModuleRegistry::with_ledger_id, owned by no engine
InitRegistry ==
    /\ config \in Configs
    /\ engine = "none"
    /\ module_order = <<>>
    /\ meta = RegistryNew
    /\ state = LedgerStateNew
    /\ table = <<>>
    /\ grants = <<>>
    /\ now = 0
    /\ op = "with_ledger_id"
    /\ args = <<>>
    /\ context = None
    /\ result = "ok"
    /\ returned = <<>>
    /\ trace = <<>>

\* ModuleRegistry::register; the insertion may move every key of the HashMap
Register ==
    /\ engine = "none"
    /\ \E id \in ModuleIds :
          LET o == RegisterOutcome(meta, id)
          IN  /\ meta' = o.meta
              /\ module_order' \in
                    IF o.result = "ok" THEN IterationOrders(DOMAIN o.meta)
                    ELSE {module_order}
              /\ op' = "register"
              /\ args' = <<id>>
              /\ result' = o.result
    /\ context' = None
    /\ returned' = <<>>
    /\ trace' = <<>>
    /\ UNCHANGED <<config, engine, state, table, grants, now>>

\* a lifecycle call on the registry did this
ApplyLifecycle(name, o) ==
    /\ meta' = o.meta
    /\ op' = name
    /\ args' = <<>>
    /\ context' = None
    /\ result' = o.result
    /\ returned' = <<>>
    /\ trace' = o.trace
    /\ UNCHANGED <<config, engine, module_order, state, table, grants, now>>

\* ModuleRegistry::init_all
InitAll ==
    /\ engine = "none"
    /\ \E failing \in SUBSET (DOMAIN meta \ BuiltIn) :
          ApplyLifecycle("init_all", InitAllFrom(module_order, 1, meta, failing))

\* ModuleRegistry::start_all
StartAll ==
    /\ engine = "none"
    /\ \E failing \in SUBSET (DOMAIN meta \ BuiltIn) :
          ApplyLifecycle("start_all", StartAllFrom(module_order, 1, meta, failing))

\* ModuleRegistry::stop_all
StopAll ==
    /\ engine = "none"
    /\ \E failing \in SUBSET (DOMAIN meta \ BuiltIn) :
          ApplyLifecycle("stop_all", StopAllFrom(module_order, 1, meta, failing))

NextRegistry == Register \/ InitAll \/ StartAll \/ StopAll \/ New \/ Drop

SpecRegistry == InitRegistry /\ [][NextRegistry]_vars

(***************************************************************************)
(* Properties                                                              *)
(***************************************************************************)
Appends == {"append_record", "append_batch"}

\* the first entry has no prev_hash, every later one carries the hash of the
\* entry right before it
Linked(entries) ==
    \A i \in 1..Len(entries) :
        entries[i].prev_hash = IF i = 1 THEN None ELSE Some(entries[i - 1].hash)

\* what the read operations len, latest_hash, get_record and
\* get_record_by_id return
LedgerView(st) ==
    [len |-> Len(st.entries),
     latest_hash |-> st.latest_hash,
     get_record |-> [r \in Records |-> GetByHash(st, ComputeHash(r))],
     get_record_by_id |-> [r \in Records |-> GetById(st, r.id)]]

StepNames(steps) == { steps[i][1] : i \in 1..Len(steps) }

TableHashes == { FromHex(table[i].hash) : i \in 1..Len(table) }
StateHashes == { state.entries[i].hash : i \in 1..Len(state.entries) }

\* C1: after every append_record / append_batch call, failed or not, the
\* entry sequence is linked in append order, and a call adds exactly its
\* records, in input order, behind the entries that were there
C1_AppendsInCallOrder ==
    (op' \in Appends) =>
        LET n == Len(state.entries)
            added == IF result' = "ok" THEN args' ELSE <<>>
        IN  /\ Len(state'.entries) = n + Len(added)
            /\ SubSeq(state'.entries, 1, n) = state.entries
            /\ \A k \in 1..Len(added) : state'.entries[n + k].record = added[k]
\* C1: the entry sequence is always linked, and every step appends in call order
C1_LinkedInAppendOrder ==
    [](Linked(state.entries)) /\ [][C1_AppendsInCallOrder]_vars
C1_Witness ==
    /\ op = "append_batch" /\ result = "ok" /\ Len(args) = 2
    /\ Len(state.entries) = 3

\* C2: after every successful append_record, verify() succeeds
C2_VerifyAfterAppend ==
    (engine = "live" /\ op = "append_record" /\ result = "ok")
        => VerifyChain(state.entries).valid

\* C3: an append_record that returns an error leaves LedgerState as it was:
\* len, latest_hash, get_record and get_record_by_id answer as before
C3_Step ==
    (op' = "append_record" /\ result' # "ok")
        => (state' = state /\ LedgerView(state') = LedgerView(state))
\* C3: every failed append_record step leaves LedgerState as it was
C3_FailedAppendLeavesState == [][C3_Step]_vars
C3_Witness ==
    /\ op = "append_record" /\ result = "Storage"
    /\ Len(state.entries) = 2

\* C4: with storage configured, after every append_record call the storage
\* holds exactly the entries of LedgerState
C4_StorageMatchesState ==
    (config.storage = "Sqlite" /\ engine = "live" /\ op = "append_record")
        => (Len(table) = Len(state.entries) /\ TableHashes = StateHashes)

\* C5: a new engine over the storage of a dropped one is constructed, holds
\* the same entries in the same order, resolves every id and verifies
C5_Step ==
    (op' = "new" /\ engine = "dropped" /\ config.storage = "Sqlite")
        => /\ result' = "ok"
           /\ state'.entries = state.entries
           /\ state'.latest_hash = state.latest_hash
           /\ \A i \in 1..Len(state.entries) :
                 IsSome(GetById(state', state.entries[i].record.id))
           /\ VerifyChain(state'.entries).valid
\* C5: every LedgerEngine::new step after a drop restores the dropped engine's entries
C5_RoundTrip == [][C5_Step]_vars

\* C6: append_batch adds every record of the batch, in input order and
\* chained onto the previous tip, or leaves LedgerState as it was
C6_Step ==
    (op' = "append_batch") =>
        IF result' = "ok"
        THEN LET n == Len(state.entries)
             IN  /\ Len(state'.entries) = n + Len(args')
                 /\ SubSeq(state'.entries, 1, n) = state.entries
                 /\ \A k \in 1..Len(args') :
                       /\ state'.entries[n + k].record = args'[k]
                       /\ state'.entries[n + k].prev_hash =
                            IF k = 1 THEN state.latest_hash
                            ELSE Some(state'.entries[n + k - 1].hash)
        ELSE state' = state
\* C6: every append_batch step adds the whole batch in order or nothing
C6_BatchAllOrNothing == [][C6_Step]_vars
C6_Witness ==
    /\ op = "append_batch" /\ result = "Storage" /\ Len(args) = 2
    /\ Event("save_entry", "", 2) \in { trace[i] : i \in 1..Len(trace) }
    /\ Len(state.entries) = 1

\* C7: a batch holding an invalid record, at whatever position, fails before
\* any hook runs and before anything is persisted, and changes nothing
C7_Step ==
    (op' = "append_batch"
     /\ \E k \in 1..Len(args') : RecordValidate(args'[k]) # "ok")
        => /\ result' # "ok"
           /\ StepNames(trace') \subseteq {"validate_record"}
           /\ table' = table
           /\ state' = state
\* C7: every append_batch step with an invalid record fails in validation, changing nothing
C7_InvalidRecordAbortsBatch == [][C7_Step]_vars
C7_Witness ==
    /\ op = "append_batch" /\ result = "Record" /\ Len(args) = 2
    /\ RecordValidate(args[1]) = "ok" /\ RecordValidate(args[2]) # "ok"
    /\ Len(state.entries) = 1

\* C8: a storage save failing in append_batch rolls the whole batch back:
\* neither storage nor LedgerState holds a record of it afterwards
C8_Step ==
    (op' = "append_batch" /\ result' = "Storage")
        => (table' = table /\ state' = state)
\* C8: every append_batch step that fails in the save loop leaves storage as it was
C8_BatchSaveFailureRollsBack == [][C8_Step]_vars

\* hash integrity, linkage and timestamp order, entry by entry
ChainWellFormed(entries) ==
    /\ \A i \in 1..Len(entries) : entries[i].hash = ComputeHash(entries[i].record)
    /\ Linked(entries)
    /\ \A i \in 2..Len(entries) :
          entries[i].record.timestamp >= entries[i - 1].record.timestamp

\* C9: LedgerEngine::new over a storage whose loaded entries do not verify
\* returns ChainInvalid and creates no engine; an engine it does create holds
\* the loaded entries, in loaded order, and they verify
C9_FailClosedLoad ==
    (op = "new" /\ config.storage = "Sqlite") =>
        LET loaded == LoadAllEntries(table)
        IN  IF ChainWellFormed(loaded)
            THEN engine = "live" /\ result = "ok" /\ state.entries = loaded
            ELSE engine = "failed" /\ result = "ChainInvalid"
                 /\ state = LedgerStateNew
C9_Witness ==
    /\ op = "new" /\ result = "ChainInvalid" /\ engine = "failed"
    /\ Len(table) = 2

\* C10: load_all_entries returns the entries in the order they were saved
C10_LoadInSaveOrder ==
    LoadAllEntries(table) = [i \in 1..Len(table) |-> RowToEntry(table[i])]

\* s is a prefix of t
IsPrefix(s, t) == Len(s) <= Len(t) /\ SubSeq(t, 1, Len(s)) = s

\* C11: an operation on a live engine leaves the entries that were there
\* where they were and as they were; the sequence only grows at its end
C11_Step ==
    (engine = "live" /\ engine' = "live") =>
        /\ IsPrefix(state.entries, state'.entries)
        /\ Len(state'.entries) >= Len(state.entries)
\* C11: the ledger is append-only under every operation of a live engine
C11_AppendOnly == [][C11_Step]_vars
C11_Witness ==
    /\ op = "append_batch" /\ result = "ok"
    /\ Len(args) = 2 /\ Len(state.entries) = 3

\* the indices of a LedgerState agree with its entry sequence
IndicesAgree(st) ==
    /\ \A h \in DOMAIN st.by_hash :
          /\ st.by_hash[h] \in 0..(Len(st.entries) - 1)
          /\ st.entries[st.by_hash[h] + 1].hash = h
    /\ \A id \in DOMAIN st.by_id :
          /\ st.by_id[id] \in 0..(Len(st.entries) - 1)
          /\ st.entries[st.by_id[id] + 1].record.id = id
    /\ \A i \in 1..Len(st.entries) :
          /\ st.entries[i].hash \in DOMAIN st.by_hash
          /\ st.entries[i].record.id \in DOMAIN st.by_id
    /\ st.latest_hash =
          IF st.entries = <<>> THEN None
          ELSE Some(st.entries[Len(st.entries)].hash)

\* C12: in every reachable state by_hash and by_id hold only positions of
\* entries carrying the key, every entry is keyed in both, and latest_hash
\* is the hash of the last entry, absent exactly when there is none
C12_IndicesAgree == IndicesAgree(state)
C12_Witness ==
    /\ op \in Appends /\ result = "ok"
    /\ Len(state.entries) = 3
    /\ Cardinality(DOMAIN state.by_id) = 2
    /\ Cardinality(DOMAIN state.by_hash) = 2

\* the (subject, resource, action) triple a grant or a parameter record names
TripleOfGrant(g) == <<g.subject_oid, g.resource_oid, g.action>>
TripleOfCheck(p) == <<p.requester_oid, p.resource_oid, p.action>>
TripleOfRevoke(p) == <<p.subject_oid, p.resource_oid, p.action>>

\* expires_at is absent or has not passed
Unexpired(g, clock) ==
    IsSome(g.expires_at) => Unwrap(g.expires_at) >= clock \div 1000

\* the grant the ACL holds for exactly this triple, if any
StoredFor(acl, t) ==
    IF \E k \in DOMAIN acl : TripleOfGrant(acl[k]) = t
    THEN Some(CHOOSE g \in { acl[k] : k \in DOMAIN acl } : TripleOfGrant(g) = t)
    ELSE None

\* the ACL holds a grant for exactly this triple that has not expired
HoldsValidGrant(acl, t, clock) ==
    /\ IsSome(StoredFor(acl, t))
    /\ Unexpired(Unwrap(StoredFor(acl, t)), clock)

\* the write permission of a requester on the engine's ledger resource
WriteTriple(cfg, requester_oid) ==
    <<requester_oid, LedgerResource(cfg), <<"write">>>>

\* C13: on an engine with ACL, an append from a requester holding no valid
\* write grant on the ledger resource returns AccessDenied having run no step
\* and changed neither storage nor LedgerState; holding one, it is not denied
C13_Step ==
    (/\ op' \in Appends
     /\ config.acl = "InMemory"
     /\ ContextValidate(Unwrap(context'), now) = "ok") =>
        IF HoldsValidGrant(grants, WriteTriple(config, Unwrap(context').requester_oid), now)
        THEN result' # "AccessDenied"
        ELSE /\ result' = "AccessDenied"
             /\ trace' = <<>>
             /\ state' = state
             /\ table' = table
\* C13: every append on an engine with ACL is denied exactly when the
\* requester holds no valid write grant on the ledger resource
C13_AppendGatedByWriteGrant == [][C13_Step]_vars

\* C14: check_access on an engine with ACL returns Ok(true) exactly when the
\* ACL holds a grant for exactly the triple asked about whose expires_at is
\* absent or >= now, and Ok(false) otherwise
C14_CheckIffExactValidGrant ==
    (op = "check_access" /\ config.acl = "InMemory") =>
        /\ result = "ok"
        /\ returned = <<HoldsValidGrant(grants, TripleOfCheck(args[1]), now)>>

\* what check answers for a triple
Allowed(acl, t, clock) == AclCheck(acl, CheckParams(t[1], t[2], t[3]), clock)

\* C15: a grant or a revoke on one triple leaves, for every other triple,
\* the stored grant and the answer of check as they were
C15_Step ==
    (op' \in {"grant", "revoke"} /\ result' = "ok") =>
        LET t == IF op' = "grant" THEN TripleOfGrant(args'[1])
                 ELSE TripleOfRevoke(args'[1])
        IN  \A u \in Triples(config) \ {t} :
              /\ StoredFor(grants', u) = StoredFor(grants, u)
              /\ Allowed(grants', u, now) = Allowed(grants, u, now)
\* C15: every grant and revoke step changes nothing for any other triple
C15_IsolatedByTriple == [][C15_Step]_vars

\* an append on an engine with ACL, from a requester whose context is valid
GatedAppend ==
    /\ op' \in Appends
    /\ config.acl = "InMemory"
    /\ ContextValidate(Unwrap(context'), now) = "ok"

\* C16 as stated: an append passes the access gate when the requester holds
\* a valid grant of "write" on the resource "ledger:{engine_id}"
C16_ShortStep ==
    (/\ GatedAppend
     /\ HoldsValidGrant(grants, <<Unwrap(context').requester_oid,
                                   Oid(<<"ledger", config.id>>), <<"write">>>>, now))
        => result' # "AccessDenied"
\* C16 as stated, for every append step
C16_GateChecksShortResource == [][C16_ShortStep]_vars

\* C16 amended: the permission an append asks for is "write" on the resource
\* "oid:onoal:ledger:{engine_id}": the call is denied exactly when check
\* answers false for it, and passes the gate when the requester holds a valid
\* grant of it
C16_Step ==
    GatedAppend =>
        LET t == <<Unwrap(context').requester_oid,
                   Oid(<<"oid", "onoal", "ledger", config.id>>), <<"write">>>>
        IN  /\ (result' = "AccessDenied") = ~Allowed(grants, t, now)
            /\ HoldsValidGrant(grants, t, now) => result' # "AccessDenied"
\* C16 amended, for every append step
C16_GateChecksLedgerOid == [][C16_Step]_vars
C16_Witness ==
    /\ op = "append_record" /\ result = "ok"
    /\ config.acl = "InMemory"
    /\ context = Some([requester_oid |-> Alice, timestamp |-> 0])
    /\ DOMAIN grants =
         { MakeKey(Alice, Oid(<<"oid", "onoal", "ledger", config.id>>), <<"write">>) }
    /\ HoldsValidGrant(grants, <<Alice, Oid(<<"oid", "onoal", "ledger", config.id>>),
                                 <<"write">>>>, now)

\* C17: on an engine constructed with AclConfig::None check_access answers
\* Ok(true) whatever it is asked, and no append is refused with AccessDenied
C17_NoAclAllowsAll ==
    config.acl = "None" =>
        /\ op = "check_access" => (result = "ok" /\ returned = <<TRUE>>)
        /\ op \in Appends => result # "AccessDenied"
C17_Witness ==
    /\ config.acl = "None"
    /\ op = "check_access"
    /\ returned = <<TRUE>>
    /\ TripleOfCheck(args[1]) \in Triples(config)

\* C18 as stated: without ACL, grant, revoke and list_grants each return a
\* configuration error
C18_AllFailWithoutAcl ==
    (config.acl = "None" /\ op \in {"grant", "revoke", "list_grants"}) =>
        result = "Configuration"

\* C18 amended: without ACL, grant and revoke return a configuration error,
\* list_grants returns Ok with an empty list and check_access Ok(true); none
\* of the four changes the ACL, LedgerState or storage
C18_Step ==
    (config.acl = "None"
     /\ op' \in {"grant", "revoke", "list_grants", "check_access"}) =>
        /\ op' \in {"grant", "revoke"} => result' = "Configuration"
        /\ op' = "list_grants" => (result' = "ok" /\ returned' = <<>>)
        /\ op' = "check_access" => (result' = "ok" /\ returned' = <<TRUE>>)
        /\ grants' = grants
        /\ state' = state
        /\ table' = table
\* C18 amended, for every step of an engine without ACL
C18_WithoutAcl == [][C18_Step]_vars
C18_Witness ==
    /\ config.acl = "None"
    /\ op = "revoke"
    /\ result = "Configuration"
    /\ grants = <<>>

\* C19: after a grant the ACL holds, for the triple granted, exactly the
\* grant just given, and check answers by that grant's expires_at alone
C19_Step ==
    (op' = "grant" /\ result' = "ok") =>
        LET g == args'[1]
        IN  /\ StoredFor(grants', TripleOfGrant(g)) = Some(g)
            /\ Allowed(grants', TripleOfGrant(g), now) = Unexpired(g, now)
\* a listing names no triple twice and holds only grants the ACL stores
C19_Listing ==
    (op = "list_grants" /\ result = "ok") =>
        /\ \A i, j \in 1..Len(returned) :
              TripleOfGrant(returned[i]) = TripleOfGrant(returned[j]) => i = j
        /\ \A i \in 1..Len(returned) :
              StoredFor(grants, TripleOfGrant(returned[i])) = Some(returned[i])
\* C19: the ACL never holds two grants for one triple, a grant replaces the
\* earlier grant of its triple, and check and list_grants answer by the
\* latest one
C19_OneGrantPerTriple ==
    /\ [](\A k1, k2 \in DOMAIN grants :
            TripleOfGrant(grants[k1]) = TripleOfGrant(grants[k2]) => k1 = k2)
    /\ []C19_Listing
    /\ [][C19_Step]_vars
C19_Witness ==
    /\ op = "grant" /\ result = "ok"
    /\ trace = <<Event("replace_grant", "", 1)>>
    /\ args[1].expires_at = Some(1) /\ now = 2000
    /\ ~Allowed(grants, TripleOfGrant(args[1]), now)

\* C20: a revoke on an engine with ACL returns Ok whether or not the grant
\* exists, check for its triple is false afterwards, and a second revoke
\* would change nothing
C20_RevokeStep ==
    (op' = "revoke" /\ config.acl = "InMemory") =>
        /\ result' = "ok"
        /\ ~Allowed(grants', TripleOfRevoke(args'[1]), now)
        /\ AclRevoke(grants', args'[1]) = grants'
\* after a revoke, check for its triple turns true only by a grant of that
\* triple
C20_RegrantStep ==
    (op = "revoke" /\ result = "ok"
     /\ Allowed(grants', TripleOfRevoke(args[1]), now')) =>
        (op' = "grant" /\ TripleOfGrant(args'[1]) = TripleOfRevoke(args[1]))
\* C20: revoke always succeeds and is idempotent, and check for the revoked
\* triple stays false until a grant for that triple is inserted
C20_RevokeUntilRegrant == [][C20_RevokeStep /\ C20_RegrantStep]_vars

\* the grants the ACL stores
Stored(acl) == { acl[k] : k \in DOMAIN acl }
\* the grants a listing holds
Listed(list) == { list[i] : i \in 1..Len(list) }

\* C21: list_grants(subject) returns, once each, exactly the stored grants
\* of that subject whose expires_at is absent or has not passed, whatever
\* their resource and action; a stored grant of the subject is listed exactly
\* when check on its triple answers true, so an expired one is in neither
C21_ListsUnexpiredOfSubject ==
    (op = "list_grants" /\ config.acl = "InMemory") =>
        /\ result = "ok"
        /\ Listed(returned) =
             { g \in Stored(grants) :
                 g.subject_oid = args[1] /\ Unexpired(g, now) }
        /\ Len(returned) = Cardinality(Listed(returned))
        /\ \A g \in Stored(grants) :
              g.subject_oid = args[1] =>
                 ((g \in Listed(returned)) = Allowed(grants, TripleOfGrant(g), now))
C21_Witness ==
    /\ op = "list_grants" /\ config.acl = "InMemory"
    /\ Len(returned) = 2
    /\ \E g \in Stored(grants) :
          /\ g.subject_oid = args[1]
          /\ ~Unexpired(g, now)
          /\ g \notin Listed(returned)

\* the place of a ModuleState on Registered -> Initialized -> Started -> Stopped
Rank(module_state) ==
    CASE module_state = "Registered" -> 0
      [] module_state = "Initialized" -> 1
      [] module_state = "Started" -> 2
      [] module_state = "Stopped" -> 3

\* the calls that act on the registry at hand
LifecycleCalls == {"register", "init_all", "start_all", "stop_all", "drop"}

\* C22: a register, init_all, start_all or stop_all call leaves each module
\* in its state or moves it to the next one, a Stopped module stays Stopped,
\* and a module enters the registry as Registered
C22_Step ==
    op' \in LifecycleCalls =>
        /\ \A id \in DOMAIN meta :
              /\ id \in DOMAIN meta'
              /\ Rank(meta'[id]) \in {Rank(meta[id]), Rank(meta[id]) + 1}
        /\ \A id \in (DOMAIN meta') \ (DOMAIN meta) : meta'[id] = "Registered"
\* C22: every lifecycle call moves every module forward only, one state at
\* a time
C22_ForwardOnly == [][C22_Step]_vars

\* the hooks the engine invokes on a module
Hooks == {"before_append", "after_append", "query"}

\* the modules an operation invoked the given hook on, in invocation order,
\* for input record k
Invoked(steps, hook, k) ==
    LET calls == SelectSeq(steps, LAMBDA ev : ev[1] = hook /\ ev[3] = k)
    IN  [i \in 1..Len(calls) |-> calls[i][2]]

\* C23: every hook an operation invokes is invoked on a module that is
\* Started before and after the operation
C23_Step ==
    \A i \in 1..Len(trace') :
        trace'[i][1] \in Hooks =>
            /\ meta[trace'[i][2]] = "Started"
            /\ meta'[trace'[i][2]] = "Started"
\* C23: while an engine lives every configured module is Started, and every
\* before_append, after_append and query call goes to a Started module
C23_HooksOnStartedModules ==
    /\ [](engine = "live" =>
            \A i \in 1..Len(config.modules) : meta[config.modules[i]] = "Started")
    /\ [][C23_Step]_vars
C23_Witness ==
    /\ engine = "live"
    /\ op = "query"
    /\ Len(Invoked(trace, "query", 0)) = Len(config.modules)
    /\ Len(state.entries) = 2

\* C24: the before_append, after_append and query calls of an operation go
\* to the modules in the order of the configuration, for every input record
C24_HooksInConfigOrder ==
    \A hook \in Hooks, k \in 0..MaxBatch :
        LET called == Invoked(trace, hook, k)
        IN  \A i \in 1..Len(called) : called[i] = config.modules[i]

\* the modules an operation ran the given lifecycle step on
Ran(steps, step) == { steps[i][2] : i \in { j \in 1..Len(steps) : steps[j][1] = step } }

\* C25: init_all (start_all) returns an error exactly when an init (start)
\* failed, leaving that module in its state; a module turns Initialized only
\* by an init that returned Ok and Started only by a start that returned Ok
\* on an Initialized module; LedgerEngine::new fails when the module set-up
\* fails and otherwise leaves every module Started
C25_Step ==
    /\ op' = "init_all" =>
          (result' # "ok") = (Ran(trace', "init_failed") # {})
    /\ op' = "start_all" =>
          (result' # "ok") = (Ran(trace', "start_failed") # {})
    /\ op' \in LifecycleCalls =>
          \A id \in DOMAIN meta :
             /\ id \in Ran(trace', "init_failed") \cup Ran(trace', "start_failed")
                   => meta'[id] = meta[id]
             /\ (meta'[id] = "Initialized" /\ meta[id] # "Initialized")
                   => (op' = "init_all" /\ id \in Ran(trace', "init"))
             /\ (meta'[id] = "Started" /\ meta[id] # "Started")
                   => (/\ op' = "start_all" /\ id \in Ran(trace', "start")
                       /\ meta[id] = "Initialized")
    /\ op' = "new" =>
          IF NewModules(config, module_order').result # "ok"
          THEN result' # "ok" /\ engine' # "live"
          ELSE \A i \in 1..Len(config.modules) : meta'[config.modules[i]] = "Started"
\* C25: module start-up is fail-fast at every step
C25_FailFastStartUp == [][C25_Step]_vars
C25_Witness ==
    /\ op = "init_all" /\ result # "ok"
    /\ Len(trace) = 2
    /\ trace[1][1] = "init" /\ meta[trace[1][2]] = "Initialized"
    /\ trace[2][1] = "init_failed" /\ meta[trace[2][2]] = "Registered"
    /\ \E id \in DOMAIN meta : id \notin {trace[1][2], trace[2][2]}
                                /\ meta[id] = "Registered"

\* C26: stop_all, called directly or by dropping the engine, returns no
\* error, turns every Started module Stopped whether or not a stop hook
\* failed, and leaves the other modules as they were
C26_Step ==
    op' \in {"stop_all", "drop"} =>
        /\ result' = "ok"
        /\ \A id \in DOMAIN meta :
              meta'[id] = IF meta[id] = "Started" THEN "Stopped" ELSE meta[id]
        /\ Ran(trace', "stop") \cup Ran(trace', "stop_failed") =
             { id \in DOMAIN meta : meta[id] = "Started" }
\* C26: shutdown completes at every stop_all and at every drop
C26_ShutdownCompletes == [][C26_Step]_vars
C26_Witness ==
    /\ op = "stop_all" /\ result = "ok"
    /\ Len(trace) = 3
    /\ trace[1][1] = "stop_failed"
    /\ \A id \in DOMAIN meta : meta[id] = "Stopped"

(***************************************************************************)
(* Chains built and verified by a caller of nucleus-core: `args` is the    *)
(* slice of entries, `returned` the result of verify_chain on it, `trace`  *)
(* the fields overwritten since the chain was built                        *)
(***************************************************************************)
\* Hash::from_bytes([b; 32])
HashFromBytes(b) == [sha256 |-> <<b>>]

\* the values written over a stored hash or prev_hash: a constant, and the
\* hash of a record (which may be an entry of the chain)
WrongHashes ==
    { HashFromBytes(255),
      ComputeHash(Record("r2", "assets", 1, ObjectPayload({"owner_oid"}))) }

\* verify_chain(&entries) on the slice the caller holds after the step
Verified(name, entries, outcome, steps) ==
    /\ args' = entries
    /\ returned' = <<VerifyChain(entries)>>
    /\ op' = name
    /\ result' = outcome
    /\ trace' = steps
    /\ UNCHANGED <<config, engine, module_order, meta, state, table, grants,
                   now, context>>

InitVerify ==
    /\ config \in { c \in Configs : c.storage = "None" }
    /\ engine = "none"
    /\ module_order = <<>>
    /\ meta = RegistryNew
    /\ state = LedgerStateNew
    /\ table = <<>>
    /\ grants = <<>>
    /\ now = 0
    /\ op = "verify_chain"
    /\ args = <<>>
    /\ context = None
    /\ result = "ok"
    /\ returned = <<VerifyChain(<<>>)>>
    /\ trace = <<>>

\* ChainEntry::genesis(record) as the first entry
Genesis ==
    /\ args = <<>> /\ trace = <<>>
    /\ \E record \in Records :
          IF ChainEntryNewResult(record) # "ok"
          THEN Verified("genesis", args, ChainEntryNewResult(record), trace)
          ELSE Verified("genesis", <<ChainEntryNew(record, None)>>, "ok", trace)

\* ChainEntry::new(record, Some(hash of the last entry)) pushed on the chain
ChainEntryPush ==
    /\ args # <<>> /\ Len(args) < MaxLen /\ trace = <<>>
    /\ \E record \in Records :
          IF ChainEntryNewResult(record) # "ok"
          THEN Verified("chain_entry_new", args, ChainEntryNewResult(record), trace)
          ELSE Verified("chain_entry_new",
                        Append(args, ChainEntryNew(record, Some(args[Len(args)].hash))),
                        "ok", trace)

\* entry.hash = <another hash>
CorruptHash ==
    /\ Len(trace) < MaxCorrupt
    /\ \E k \in 1..Len(args) : \E h \in WrongHashes :
          /\ h # args[k].hash
          /\ Verified("corrupt_hash", [args EXCEPT ![k].hash = h], "ok",
                      Append(trace, Event("corrupt_hash", args[k].record.id, k)))

\* entry.prev_hash = Some(<a hash that is not the previous entry's>)
CorruptPrevHash ==
    /\ Len(trace) < MaxCorrupt
    /\ \E k \in 2..Len(args) : \E h \in WrongHashes :
          /\ h # args[k - 1].hash
          /\ Verified("corrupt_prev_hash", [args EXCEPT ![k].prev_hash = Some(h)], "ok",
                      Append(trace, Event("corrupt_prev_hash", args[k].record.id, k)))

NextVerify == Genesis \/ ChainEntryPush \/ CorruptHash \/ CorruptPrevHash
SpecVerify == InitVerify /\ [][NextVerify]_vars

\* the result of the last verify_chain
Checked == returned[1]
\* the entries the three checks of verify_chain are about
WrongHash(entries) == { i \in 1..Len(entries) : ~VerifyHash(entries[i]) }
BrokenLink(entries) ==
    { i \in 1..Len(entries) :
        IF i = 1 THEN IsSome(entries[i].prev_hash)
        ELSE entries[i].prev_hash # Some(entries[i - 1].hash) }
Decreasing(entries) ==
    { i \in 2..Len(entries) :
        entries[i].record.timestamp < entries[i - 1].record.timestamp }
ErrorsOf(kind) ==
    { j \in 1..Len(Checked.errors) : Checked.errors[j].kind = kind }

\* C27: verify_chain runs the hash, link and timestamp checks on every
\* entry whatever failed before: an entry whose stored hash is wrong still
\* has its broken link and its decreasing timestamp recorded and counted
C27_AllChecksOnEveryEntry ==
    \A i \in WrongHash(args) :
       /\ i \in BrokenLink(args) =>
             /\ Checked.chain_link_errors >= 1
             /\ \E j \in ErrorsOf("ChainLinkBroken") :
                   Checked.errors[j] = ChainError("ChainLinkBroken", args[i])
       /\ i \in Decreasing(args) =>
             /\ Checked.timestamp_errors >= 1
             /\ \E j \in ErrorsOf("TimestampOutOfOrder") :
                   Checked.errors[j] = ChainError("TimestampOutOfOrder", args[i])

\* the chain is as genesis and ChainEntry::new built it
Built == op \in {"verify_chain", "genesis", "chain_entry_new"} /\ trace = <<>>
Clean ==
    /\ Checked.valid
    /\ Checked.errors = <<>>
    /\ Checked.hash_mismatches = 0
    /\ Checked.chain_link_errors = 0
    /\ Checked.timestamp_errors = 0
    /\ Checked.entries_checked = Len(args)

\* C28 as stated: the chain built by genesis and ChainEntry::new from any
\* sequence of valid records verifies valid with zero errors and
\* entries_checked equal to its length
C28_BuiltChainValid == Built => Clean

\* C28: the chain built by genesis and ChainEntry::new from valid records
\* whose timestamps never decrease verifies valid with zero errors and
\* entries_checked equal to its length, the empty chain included
C28_OrderedChainValid == (Built /\ Decreasing(args) = {}) => Clean
C28_Witness ==
    /\ Built /\ op = "chain_entry_new" /\ result = "ok"
    /\ Len(args) >= 3
    /\ Decreasing(args) = {}
    /\ args[1].record.timestamp < args[3].record.timestamp
    /\ Clean

\* C29: overwriting the stored hash of one entry of a valid chain with a
\* different value makes verify_chain report valid == false,
\* hash_mismatches == 1 and entries_checked == the length of the chain
C29_Step ==
    (op' = "corrupt_hash" /\ trace = <<>> /\ VerifyChain(args).valid) =>
        LET after == returned'[1]
        IN  /\ ~after.valid
            /\ after.hash_mismatches = 1
            /\ after.entries_checked = Len(args)
            /\ Len(args') = Len(args)
\* C29: one corrupted hash is reported as exactly one hash mismatch
C29_CorruptHashDetected == [][C29_Step]_vars
C29_Witness ==
    /\ op = "corrupt_hash" /\ Len(trace) = 1 /\ trace[1][3] = 2
    /\ Len(args) >= 3
    /\ VerifyChain([args EXCEPT ![2].hash = ComputeHash(args[2].record)]).valid
    /\ ~Checked.valid /\ Checked.hash_mismatches = 1
    /\ Checked.entries_checked = Len(args)

\* C30: overwriting the prev_hash of one entry after the first of a valid
\* chain with a hash that is not the previous entry's makes verify_chain
\* report exactly one link error, none on the entries after it
C30_Step ==
    (op' = "corrupt_prev_hash" /\ trace = <<>> /\ VerifyChain(args).valid) =>
        LET after == returned'[1]
        IN  /\ ~after.valid
            /\ after.chain_link_errors = 1
            /\ after.errors = <<ChainError("ChainLinkBroken", args[trace'[1][3]])>>
\* C30: one wrong prev_hash is reported as exactly one broken link
C30_OneLinkError == [][C30_Step]_vars
C30_Witness ==
    /\ op = "corrupt_prev_hash" /\ Len(trace) = 1 /\ trace[1][3] = 2
    /\ Len(args) >= 3
    /\ args[2].hash # args[1].hash
    /\ VerifyChain([args EXCEPT ![2].prev_hash = Some(args[1].hash)]).valid
    /\ Checked.chain_link_errors = 1

\* C31: a sequence in which some entry's timestamp is below that of the
\* entry before it is reported with timestamp_errors >= 1 and valid ==
\* false, and no timestamp error is reported where no timestamp decreases
C31_DecreasingTimestampReported ==
    /\ Decreasing(args) # {} =>
          (Checked.timestamp_errors >= 1 /\ ~Checked.valid)
    /\ Decreasing(args) = {} =>
          (Checked.timestamp_errors = 0 /\ ErrorsOf("TimestampOutOfOrder") = {})

\* the positions (1-based) of the entries whose record has the id
SharingId(st, id) == { i \in 1..Len(st.entries) : st.entries[i].record.id = id }
Last(positions) == CHOOSE i \in positions : \A j \in positions : j <= i
RecordsOf(entries) == [i \in 1..Len(entries) |-> entries[i].record]
ById(id) == QueryFilters(None, Some(id), None, None, None, None, NoModuleFilters)

\* C32: get_record_by_id returns the record appended last among those
\* sharing the id (none for an id never appended), while every one of them
\* stays in the entry sequence: len() counts them and a query by the id
\* returns each of them in append order
C32_LastWriteWinsById ==
    /\ \A id \in LookupIds :
          /\ GetRecordById(state, id) =
                IF SharingId(state, id) = {} THEN None
                ELSE Some(state.entries[Last(SharingId(state, id))].record)
          /\ QueryOutcome(state, module_order, ById(id)).records =
                RecordsOf(SelectSeq(state.entries, LAMBDA e : e.record.id = id))
          /\ QueryOutcome(state, module_order, ById(id)).total =
                Cardinality(SharingId(state, id))
    /\ op = "get_record_by_id" =>
          /\ returned[1] = GetRecordById(state, args[1])
          /\ returned[2] = Len(state.entries)
C32_Witness ==
    /\ op = "get_record_by_id" /\ args = <<"r2">>
    /\ Cardinality(SharingId(state, "r2")) = 2
    /\ state.entries[1].record.id = "r2"
    /\ state.entries[1].record # state.entries[Last(SharingId(state, "r2"))].record
    /\ returned[1] = Some(state.entries[Last(SharingId(state, "r2"))].record)
    /\ returned[2] = Len(state.entries)

\* the filters of the last query and what it returned
Asked == args[1]
Answer == returned[1]
Unpaged(filters) == filters.limit = None /\ filters.offset = None
WithoutModuleFilters(filters) ==
    \/ filters.module_filters.kind = "null"
    \/ DOMAIN filters.module_filters.fields = {}
\* the record passes the stream, id and timestamp filters that are given
Selected(record, filters) ==
    /\ IsSome(filters.stream) => record.stream = Unwrap(filters.stream)
    /\ IsSome(filters.id) => record.id = Unwrap(filters.id)
    /\ IsSome(filters.timestamp_from) => record.timestamp >= Unwrap(filters.timestamp_from)
    /\ IsSome(filters.timestamp_to) => record.timestamp <= Unwrap(filters.timestamp_to)

\* C33: without module filters a query counts and (when not paged) returns
\* exactly the records of LedgerState whose stream and id equal the filters
\* given and whose timestamp lies in [timestamp_from, timestamp_to], in
\* append order
C33_SelectsByStreamIdAndRange ==
    (op = "query" /\ WithoutModuleFilters(Asked)) =>
        LET matching == SelectSeq(RecordsOf(state.entries),
                                  LAMBDA r : Selected(r, Asked))
        IN  /\ Answer.total = Len(matching)
            /\ Unpaged(Asked) => Answer.records = matching
C33_Witness ==
    /\ op = "query" /\ WithoutModuleFilters(Asked) /\ Unpaged(Asked)
    /\ Asked.timestamp_from = Some(2) /\ Asked.timestamp_to = Some(2)
    /\ Asked.stream = None /\ Asked.id = None
    /\ Len(Answer.records) = 1
    /\ \E i, j \in 1..Len(state.entries) :
          /\ state.entries[i].record.timestamp = 1
          /\ state.entries[j].record.timestamp = 3

Min(a, b) == IF a < b THEN a ELSE b
\* the records matching every filter, before skip(offset).take(limit)
Matching(filters) ==
    QueryOutcome(state, module_order,
                 [filters EXCEPT !.limit = None, !.offset = None]).records

\* C34: total counts the matching records before pagination, records is
\* the matching records from position offset (default 0) up to limit of
\* them (default all), and has_more holds exactly when offset + the number
\* returned < total, also for an offset beyond total and for limit 0
C34_Pagination ==
    op = "query" =>
        LET matching == Matching(Asked)
            offset == IF IsSome(Asked.offset) THEN Unwrap(Asked.offset) ELSE 0
            limit == IF IsSome(Asked.limit) THEN Unwrap(Asked.limit) ELSE Len(matching)
            left == IF offset < Len(matching) THEN Len(matching) - offset ELSE 0
            n == Min(limit, left)
        IN  /\ Answer.total = Len(matching)
            /\ Answer.records = [i \in 1..n |-> matching[offset + i]]
            /\ Answer.has_more = (offset + n < Answer.total)
C34_Witness ==
    /\ op = "query"
    /\ Asked.offset = Some(1) /\ Asked.limit = Some(1)
    /\ Answer.total = 3 /\ Len(Answer.records) = 1 /\ Answer.has_more
    /\ Answer.records[1] = state.entries[2].record

\* the records of the ledger on the stream whose payload field equals the
\* value asked for
DomainMatches(stream, key, value) ==
    SelectSeq(RecordsOf(state.entries),
              LAMBDA r : r.stream = stream /\ PayloadStr(r, key) = Some(value))

\* C40: on an engine with the proof and the asset module, a query with
\* module filter {subject_oid: X} returns exactly the proofs records whose
\* subject_oid is X and one with {owner_oid: Y} exactly the assets records
\* whose owner_oid is Y
C40_DomainFilterPerModule ==
    (op = "query" /\ Asked \in DomainFilters) =>
        LET fields == Asked.module_filters.fields
        IN  /\ DOMAIN fields = {"subject_oid"} =>
                  Answer.records = DomainMatches("proofs", "subject_oid", fields.subject_oid)
            /\ DOMAIN fields = {"owner_oid"} =>
                  Answer.records = DomainMatches("assets", "owner_oid", fields.owner_oid)

(***************************************************************************)
(* Canonical JSON (packages/nucleus-core-rs/src/canonicalize.rs)           *)
(* A string is the sequence of its bytes (ASCII here); an object is the    *)
(* sequence of its <<key, value>> members in the order the map holds them. *)
(***************************************************************************)
JsonNull == [null |-> TRUE]
JsonBool(b) == [bool |-> b]
JsonNumber(n) == [num |-> n]
JsonString(s) == [str |-> s]
JsonArray(items) == [arr |-> items]
JsonObject(members) == [obj |-> members]
IsKind(value, kind) == kind \in DOMAIN value

RECURSIVE Digits(_)
\* `{}` of a non-negative integer Number: its decimal digits
Digits(n) == IF n < 10 THEN <<48 + n>> ELSE Digits(n \div 10) \o <<48 + (n % 10)>>

HexDigit(d) == IF d < 10 THEN 48 + d ELSE 87 + d
\* char::is_control for ASCII
IsControl(c) == c < 32 \/ c = 127

\* one arm of the match in escape_json_string
EscapeChar(c) ==
    IF c = 34 THEN <<92, 34>>
    ELSE IF c = 92 THEN <<92, 92>>
    ELSE IF c = 8 THEN <<92, 98>>
    ELSE IF c = 12 THEN <<92, 102>>
    ELSE IF c = 10 THEN <<92, 110>>
    ELSE IF c = 13 THEN <<92, 114>>
    ELSE IF c = 9 THEN <<92, 116>>
    ELSE IF IsControl(c)
    THEN <<92, 117, 48, 48, HexDigit(c \div 16), HexDigit(c % 16)>>
    ELSE <<c>>

RECURSIVE EscapeJsonString(_)
\* escape_json_string
EscapeJsonString(s) ==
    IF s = <<>> THEN <<>> ELSE EscapeChar(Head(s)) \o EscapeJsonString(Tail(s))

RECURSIVE LexLess(_, _)
\* Ord for String: byte-wise lexicographic
LexLess(s, t) ==
    IF t = <<>> THEN FALSE
    ELSE IF s = <<>> THEN TRUE
    ELSE IF Head(s) # Head(t) THEN Head(s) < Head(t)
    ELSE LexLess(Tail(s), Tail(t))

\* the keys left as the map yields them
KeysAsHeld(keys) == keys

RECURSIVE KeysSort(_)
\* `keys.sort()`
KeysSort(keys) ==
    IF keys = <<>> THEN <<>>
    ELSE LET least == CHOOSE i \in 1..Len(keys) :
                         \A j \in 1..Len(keys) : ~LexLess(keys[j], keys[i])
             rest == [j \in 1..(Len(keys) - 1) |->
                         IF j < least THEN keys[j] ELSE keys[j + 1]]
         IN  <<keys[least]>> \o KeysSort(rest)

\* obj.get(key)
ObjectGet(members, key) ==
    members[CHOOSE i \in 1..Len(members) : members[i][1] = key][2]

RECURSIVE WriteCanonical(_)
RECURSIVE WriteItems(_, _)
RECURSIVE WriteMembers(_, _, _)

\* the loop of the Array arm of write_canonical, from item i on
WriteItems(items, i) ==
    IF i > Len(items) THEN <<>>
    ELSE (IF i > 1 THEN <<44>> ELSE <<>>)
         \o WriteCanonical(items[i]) \o WriteItems(items, i + 1)

\* the loop of write_canonical_object over the sorted keys, from key i on
WriteMembers(members, keys, i) ==
    IF i > Len(keys) THEN <<>>
    ELSE (IF i > 1 THEN <<44>> ELSE <<>>)
         \o <<34>> \o EscapeJsonString(keys[i]) \o <<34, 58>>
         \o WriteCanonical(ObjectGet(members, keys[i]))
         \o WriteMembers(members, keys, i + 1)

\* write_canonical_object
WriteCanonicalObject(members) ==
    <<123>>
    \o WriteMembers(members, KeysSort([i \in 1..Len(members) |-> members[i][1]]), 1)
    \o <<125>>

\* write_canonical
WriteCanonical(value) ==
    IF IsKind(value, "null") THEN <<110, 117, 108, 108>>
    ELSE IF IsKind(value, "bool")
    THEN (IF value.bool THEN <<116, 114, 117, 101>> ELSE <<102, 97, 108, 115, 101>>)
    ELSE IF IsKind(value, "num") THEN Digits(value.num)
    ELSE IF IsKind(value, "str") THEN <<34>> \o EscapeJsonString(value.str) \o <<34>>
    ELSE IF IsKind(value, "arr") THEN <<91>> \o WriteItems(value.arr, 1) \o <<93>>
    ELSE WriteCanonicalObject(value.obj)

\* canonicalize_json: Ok(buffer)
CanonicalizeJson(value) == WriteCanonical(value)

\* every insertion order of the objects of at most two members with keys
\* and values of the given sets
JsonObjects(keys, values) ==
    { JsonObject(members) :
        members \in { m \in UNION { [1..n -> keys \X values] : n \in 0..2 } :
                        \A i, j \in 1..Len(m) : i # j => m[i][1] # m[j][1] } }
JsonArrays(values) ==
    { JsonArray(items) : items \in UNION { [1..n -> values] : n \in 0..2 } }

\* the values canonicalized: scalars, strings with every kind of escape,
\* flat arrays and objects, objects nesting objects and arrays
JsonScalars ==
    { JsonNull, JsonBool(TRUE), JsonBool(FALSE), JsonNumber(1), JsonNumber(12),
      JsonString(<<>>), JsonString(<<97>>), JsonString(<<34>>), JsonString(<<97, 34>>),
      JsonString(<<10>>), JsonString(<<92, 110>>), JsonString(<<1>>),
      JsonString(<<49>>), JsonString(<<49, 50>>) }
JsonFlat ==
    JsonArrays({JsonNumber(1), JsonNumber(12)})
        \cup JsonObjects({<<97>>, <<98>>}, {JsonNumber(1), JsonNumber(12)})
JsonInner ==
    { JsonObject(<< <<<<97>>, JsonNumber(1)>>, <<<<98>>, JsonNumber(12)>> >>),
      JsonObject(<< <<<<98>>, JsonNumber(12)>>, <<<<97>>, JsonNumber(1)>> >>),
      JsonArray(<<JsonNumber(1), JsonNumber(12)>>),
      JsonArray(<<JsonNumber(12), JsonNumber(1)>>) }
JsonNested == JsonObjects({<<97>>, <<97, 98>>, <<66>>}, JsonInner)
JsonValues == JsonScalars \cup JsonFlat \cup JsonNested

\* two values parsed, none canonicalized yet
InitCanon ==
    /\ config \in { c \in Configs : c.storage = "None" }
    /\ engine = "none"
    /\ module_order = <<>>
    /\ meta = RegistryNew
    /\ state = LedgerStateNew
    /\ table = <<>>
    /\ grants = <<>>
    /\ now = 0
    /\ op = "from_value"
    /\ args \in JsonValues \X JsonValues
    /\ context = None
    /\ result = "ok"
    /\ returned = <<>>
    /\ trace = <<>>

\* canonicalize_json on each of the two values
Canonicalize ==
    /\ op = "from_value"
    /\ returned' = <<CanonicalizeJson(args[1]), CanonicalizeJson(args[2])>>
    /\ op' = "canonicalize_json"
    /\ result' = "ok"
    /\ UNCHANGED <<config, engine, module_order, meta, state, table, grants,
                   now, args, context, trace>>

NextCanon == Canonicalize
SpecCanon == InitCanon /\ [][NextCanon]_vars

RECURSIVE Unordered(_)
\* the value with every object read as the map from its keys to its values
Unordered(value) ==
    IF IsKind(value, "arr")
    THEN [arr |-> [i \in 1..Len(value.arr) |-> Unordered(value.arr[i])]]
    ELSE IF IsKind(value, "obj")
    THEN [obj |-> [k \in { value.obj[i][1] : i \in 1..Len(value.obj) } |->
                      Unordered(ObjectGet(value.obj, k))]]
    ELSE value
\* deep-equal modulo object-key order at every nesting level
DeepEqual(v1, v2) == Unordered(v1) = Unordered(v2)

\* C35: two values that are deep-equal modulo object-key order at every
\* nesting level canonicalize to the same bytes, and two values that are
\* not (array element order included) canonicalize to different bytes
C35_CanonicalModuloKeyOrder ==
    op = "canonicalize_json" =>
        (returned[1] = returned[2]) = DeepEqual(args[1], args[2])
C35_Witness ==
    /\ op = "canonicalize_json"
    /\ args[1] # args[2] /\ DeepEqual(args[1], args[2])
    /\ IsKind(args[1], "obj") /\ Len(args[1].obj) = 2
    /\ args[1].obj[1][1] # args[2].obj[1][1]
    /\ \E i, j \in 1..2 :
          /\ args[1].obj[i][1] = args[2].obj[j][1]
          /\ IsKind(args[1].obj[i][2], "obj")
          /\ args[1].obj[i][2] # args[2].obj[j][2]
    /\ returned[1] = returned[2]

(***************************************************************************)
(* The engine with every combination of storage and access control,        *)
(* driven through append_record and append_batch                           *)
(***************************************************************************)
StepConfigs ==
    { [id |-> "test", modules |-> <<"proof", "asset">>, storage |-> s, acl |-> a] :
        s \in {"None", "Sqlite"}, a \in {"None", "InMemory"} }
      \ { [id |-> "test", modules |-> <<"proof", "asset">>,
           storage |-> "None", acl |-> "InMemory"] }

InitSteps ==
    /\ config \in StepConfigs
    /\ engine = "live"
    /\ module_order \in Orders(config.modules)
    /\ meta = NewModules(config, module_order).meta
    /\ state = LedgerStateNew
    /\ table = <<>>
    /\ grants = <<>>
    /\ now = 0
    /\ op = "new"
    /\ args = <<>>
    /\ context = None
    /\ result = "ok"
    /\ returned = <<>>
    /\ trace = <<>>

\* LedgerEngine::grant of write access on the ledger to alice
GrantWrite ==
    /\ engine = "live"
    /\ LET grant == Grant(Alice, LedgerResource(config), <<"write">>, None)
           o == GrantOutcome(config, grants, grant)
       IN  /\ grants' = o.grants
           /\ op' = "grant"
           /\ args' = <<grant>>
           /\ result' = o.result
    /\ trace' = <<>>
    /\ context' = None
    /\ returned' = <<>>
    /\ UNCHANGED <<config, engine, module_order, meta, state, table, now>>

\* the batches submitted: of records the engine accepts and of a record a
\* before_append hook rejects
StepBatches ==
    UNION { [1..n -> { r \in Records : RecordValidate(r) = "ok" }] : n \in 0..MaxBatch }

NextSteps ==
    \/ AppendRecord
    \/ AppendBatchFrom(StepBatches, ValidContexts)
    \/ GrantWrite

SpecSteps == InitSteps /\ [][NextSteps]_vars

\* the place of a step in append_record
StepRank(step) ==
    CASE step = "validate_record" -> 3
      [] step = "before_append" -> 4
      [] step = "chain_entry" -> 6
      [] step = "save_entry" -> 7
      [] step = "after_append" -> 8
      [] step = "state_append" -> 9
Did(steps, step) == \E i \in 1..Len(steps) : steps[i][1] = step
AllModules == { config.modules[i] : i \in 1..Len(config.modules) }

\* C36: append_record validates the context, checks the ACL, validates the
\* record, runs every before_append hook, builds the entry on the current
\* tip, saves it, runs every after_append hook and appends to the state, in
\* this order; storage is written only after every before_append hook has
\* succeeded and LedgerState changes only after the save and every
\* after_append hook have succeeded
C36_Step ==
    op' = "append_record" =>
        LET record == args'[1]
            ctx == Unwrap(context')
            steps == trace'
        IN  /\ \A i, j \in 1..Len(steps) :
                  i < j => StepRank(steps[i][1]) <= StepRank(steps[j][1])
            /\ ContextValidate(ctx, now) # "ok" =>
                  (result' = "Context" /\ steps = <<>>)
            /\ result' = "AccessDenied" =>
                  (steps = <<>> /\ ContextValidate(ctx, now) = "ok")
            /\ (Did(steps, "before_append") \/ Did(steps, "chain_entry")) =>
                  RecordValidate(record) = "ok"
            /\ (Did(steps, "chain_entry") \/ Did(steps, "save_entry")) =>
                  \A m \in AllModules :
                     /\ m \in Ran(steps, "before_append")
                     /\ ModuleBeforeAppend(m, record) = "ok"
            /\ Did(steps, "save_entry") => Did(steps, "chain_entry")
            /\ table' # table => Did(steps, "save_entry")
            /\ state' # state =>
                  /\ result' = "ok"
                  /\ steps[Len(steps)][1] = "state_append"
                  /\ config.storage = "Sqlite" =>
                        (/\ Did(steps, "save_entry")
                         /\ \E i \in 1..Len(table') :
                               RowToEntry(table'[i]) = ChainEntryNew(record, state.latest_hash))
                  /\ AllModules \subseteq Ran(steps, "after_append")
                  /\ state'.entries =
                        Append(state.entries, ChainEntryNew(record, state.latest_hash))
\* C36: the steps of append_record run in their order at every call
C36_StepsInOrder == [][C36_Step]_vars
C36_Witness ==
    /\ op = "append_record" /\ result = "ok"
    /\ config.storage = "Sqlite" /\ config.acl = "InMemory"
    /\ Len(state.entries) = 2 /\ Len(table) = 2
    /\ state.entries[2].prev_hash = Some(state.entries[1].hash)
    /\ [i \in 1..Len(trace) |-> trace[i][1]] =
         <<"validate_record", "before_append", "before_append", "chain_entry",
           "save_entry", "after_append", "after_append", "state_append">>

\* the input records (by position) the call ran an after_append hook for
AfterAppendCalled(steps) ==
    { steps[i][3] : i \in { j \in 1..Len(steps) : steps[j][1] = "after_append" } }

\* C37: after_append is invoked only for a record the call adds to the
\* ledger: every record append_record or append_batch ran an after_append
\* hook for is in LedgerState (and in a configured storage) when the call
\* returns
C37_Step ==
    op' \in {"append_record", "append_batch"} =>
        \A k \in AfterAppendCalled(trace') :
           /\ result' = "ok"
           /\ Len(state'.entries) >= Len(state.entries) + k
           /\ state'.entries[Len(state.entries) + k].record = args'[k]
\* C37: no after_append for a record the call does not commit
C37_AfterAppendOnlyForCommitted == [][C37_Step]_vars

\* positions in the steps of a call of the events of a step for record k
At(steps, step, k) ==
    { i \in 1..Len(steps) : steps[i][1] = step /\ steps[i][3] = k }

\* C38 as stated: in append_batch the after_append hooks of a record run
\* before the before_append hooks of the next record
C38_Interleaved ==
    op' = "append_batch" =>
        \A k \in 1..Len(args') :
           \A i \in At(trace', "after_append", k) :
              \A j \in At(trace', "before_append", k + 1) : i < j
\* C38 as stated, at every call of append_batch
C38_HooksInterleavedPerRecord == [][C38_Interleaved]_vars

\* the phase of append_batch a step belongs to
BatchRank(step) ==
    CASE step = "validate_record" -> 3
      [] step = "before_append" -> 4
      [] step = "chain_entry" -> 6
      [] step = "after_append" -> 6
      [] step = "save_entry" -> 7
      [] step = "state_append" -> 9

\* C38: append_batch runs the before_append hooks of every record in input
\* order, then for each record in input order builds its chain entry on
\* the running tip and runs its after_append hooks; entries are persisted
\* only after all hooks have run, and LedgerState changes only after all
\* persistence has succeeded
C38_Step ==
    op' = "append_batch" =>
        LET records == args'
            steps == trace'
            n == Len(state.entries)
        IN  /\ \A i, j \in 1..Len(steps) :
                  i < j => /\ BatchRank(steps[i][1]) <= BatchRank(steps[j][1])
                           /\ BatchRank(steps[i][1]) = BatchRank(steps[j][1])
                                 => steps[i][3] <= steps[j][3]
            /\ \A k \in 1..Len(records) :
                  \A i \in At(steps, "chain_entry", k) :
                     \A j \in At(steps, "after_append", k) : i < j
            /\ Did(steps, "chain_entry") =>
                  \A k \in 1..Len(records) :
                     AllModules \subseteq
                        { steps[i][2] : i \in At(steps, "before_append", k) }
            /\ (Did(steps, "save_entry") \/ table' # table) =>
                  \A k \in 1..Len(records) :
                     /\ At(steps, "chain_entry", k) # {}
                     /\ AllModules \subseteq
                           { steps[i][2] : i \in At(steps, "after_append", k) }
            /\ state' # state =>
                  /\ result' = "ok"
                  /\ config.storage = "Sqlite" =>
                        \A k \in 1..Len(records) : At(steps, "save_entry", k) # {}
                  /\ Len(state'.entries) = n + Len(records)
                  /\ \A k \in 1..Len(records) :
                        state'.entries[n + k] =
                          ChainEntryNew(records[k],
                                        IF k = 1 THEN state.latest_hash
                                        ELSE Some(state'.entries[n + k - 1].hash))
            /\ result' # "ok" => state' = state
\* C38: the phases of append_batch at every call
C38_BatchPhases == [][C38_Step]_vars
C38_Witness ==
    /\ op = "append_batch" /\ result = "ok"
    /\ config.storage = "Sqlite"
    /\ Len(args) = 2 /\ Len(state.entries) = 3
    /\ [i \in 1..Len(trace) |-> <<trace[i][1], trace[i][3]>>] =
         << <<"validate_record", 1>>, <<"validate_record", 2>>,
            <<"before_append", 1>>, <<"before_append", 1>>,
            <<"before_append", 2>>, <<"before_append", 2>>,
            <<"chain_entry", 1>>, <<"after_append", 1>>, <<"after_append", 1>>,
            <<"chain_entry", 2>>, <<"after_append", 2>>, <<"after_append", 2>>,
            <<"save_entry", 1>>, <<"save_entry", 2>>,
            <<"state_append", 1>>, <<"state_append", 2>> >>

RECURSIVE AppendEach(_, _, _, _, _, _, _, _, _)
\* append_record called for records[k], records[k + 1], ... in turn, every
\* save succeeding, until a call fails
AppendEach(cfg, order, st, rows, acl, clock, records, ctx, k) ==
    IF k > Len(records)
    THEN [result |-> "ok", state |-> st, table |-> rows, returned |-> <<>>]
    ELSE LET o == AppendRecordOutcome(cfg, order, st, acl, clock, records[k], ctx, TRUE)
         IN  IF o.result # "ok"
             THEN [result |-> o.result, state |-> st, table |-> rows, returned |-> <<>>]
             ELSE LET rest == AppendEach(cfg, order, StateAppendAll(st, o.committed),
                                         SaveEntries(rows, o.saved), acl, clock,
                                         records, ctx, k + 1)
                  IN  [result |-> rest.result, state |-> rest.state,
                       table |-> rest.table,
                       returned |-> o.returned \o rest.returned]

\* C39: when every record is accepted, append_batch([r1..rn]) leaves the
\* same LedgerState (entries, hashes, links, tip, indices) and the same
\* storage rows as append_record called with r1, ..., rn in turn from the
\* same state, and returns the same hashes in the same order
C39_Step ==
    op' = "append_batch" =>
        LET each == AppendEach(config, module_order, state, table, grants, now,
                               args', Unwrap(context'), 1)
        IN  result' = "ok" =>
                /\ each.result = "ok"
                /\ state' = each.state
                /\ table' = each.table
                /\ returned' = each.returned
\* C39: a batch equals the appends one by one, at every call
C39_BatchEqualsAppends == [][C39_Step]_vars
C39_Witness ==
    /\ op = "append_batch" /\ result = "ok"
    /\ config.storage = "Sqlite"
    /\ Len(args) = 2 /\ args[1] # args[2]
    /\ Len(state.entries) = 3 /\ Len(table) >= 2
    /\ state.entries[3].prev_hash = Some(state.entries[2].hash)
    /\ returned = <<state.entries[2].hash, state.entries[3].hash>>

====
